---- MODULE Spec2Model ----
(***************************************************************************)
(* Model of the session registry of the AutoCAD bridge                     *)
(* (src/server/autocad_interface.py, class AutoCADInterface) together with *)
(* the session type it stores (src/server/models.py, AutoCADConnection).   *)
(*                                                                         *)
(* Every method is split into steps at the points where it touches the     *)
(* registry or makes one call into the automation layer, so that the       *)
(* automation endpoint can fail between two steps of one call.  A thread   *)
(* holds a stack of the methods it is inside; exceptions unwind that       *)
(* stack through the except clauses of the source.                         *)
(*                                                                         *)
(* The registry is a public attribute of the interface object, and the     *)
(* contracts of get, disconnect, disconnect_all and list_connections are   *)
(* stated for any registry content, so Init draws the registry from the    *)
(* sessions an AutoCADConnection object can be (with or without a          *)
(* document attribute), the empty registry of __init__ included.  A        *)
(* registry that holds sessions was filled after COM was initialised, so   *)
(* such a state starts with the COM flag set.                              *)
(***************************************************************************)
EXTENDS Integers, Sequences, FiniteSets, TLC

\* ------------------------------------------------------------------ bounds
NumKeys == 2          \* instance keys callers use
NumApps == 2          \* process generations of the drawing application
MaxRequests == 1      \* requests the drawing routes take in one run

Keys == 1..NumKeys
Threads == {"t1", "t2"}
ThreadIdx(t) == IF t = "t1" THEN 1 ELSE 2

\* source texts handed to execute (sequences of tokens)
Codes == {<<"c1">>, <<"c1", "c2">>}
\* the text of the file load_lisp_file reads
FileText == <<"c1", "c2">>

\* ------------------------------------------------------------------ values
None == 0             \* Python None where an application handle is expected

\* models.py: the fields the AutoCADConnection dataclass declares
AutoCADConnectionFields == {"instance_id", "application", "connected"}

\* autocad_interface.py: the keyword arguments connect passes to it
ConnectKwargs ==
    {"instance_id", "application", "document", "model_space", "connected"}

\* A session object.  hasDoc says whether the object carries a document
\* attribute (the dataclass declares none; execute reads connection.document).
Session(s, a, d, c) ==
    [sid |-> s, application |-> a, hasDoc |-> d, connected |-> c]
NoSession == Session(0, None, FALSE, FALSE)

\* One shape for everything a call can hand back.
\*   kind "session"  : an AutoCADConnection            (sess)
\*   kind "absent"   : None
\*   kind "bool"     : True / False                     (ok)
\*   kind "count"    : an int                           (n)
\*   kind "result"   : LispExecutionResult              (ok = success, msg, sent)
\*   kind "docinfo"  : dict of get_active_document_info (ok = has "name")
\*   kind "list"     : list of connection records       (recs)
\*   kind "http"     : a route's response               (n = status, ok = success)
\*   kind "raise"    : an exception left the call       (exc, msg)
Val(k, o, n, s, m, e, r) ==
    [kind |-> k, ok |-> o, n |-> n, sess |-> s, msg |-> m, exc |-> e, recs |-> r]
NoVal == Val("none", FALSE, 0, NoSession, <<>>, "", <<>>)
SessionV(s) == Val("session", TRUE, 0, s, <<>>, "", <<>>)
AbsentV == Val("absent", FALSE, 0, NoSession, <<>>, "", <<>>)
BoolV(b) == Val("bool", b, 0, NoSession, <<>>, "", <<>>)
CountV(n) == Val("count", TRUE, n, NoSession, <<>>, "", <<>>)
ResultV(success, m) == Val("result", success, 0, NoSession, m, "", <<>>)
DocInfoV(hasName, m) == Val("docinfo", hasName, 0, NoSession, m, "", <<>>)
ListV(r) == Val("list", TRUE, 0, NoSession, <<>>, "", r)
HttpV(status, success) == Val("http", success, status, NoSession, <<>>, "", <<>>)
RaiseV(e, m) == Val("raise", FALSE, 0, NoSession, m, e, <<>>)

\* ------------------------------------------------------------------- state
VARIABLES
    connections,    \* self.connections: key -> session
    comInit,        \* self._com_initialized
    win32,          \* WIN32COM_AVAILABLE (fixed at import)
    launched,       \* process generations of the application started so far
    running,        \* the generation now running, None when none is
    supportLisp,    \* lisp folder occurrences in the running app's support path
    docOpen,        \* the running application has an active document
    stack,          \* per thread: the methods it is inside, outermost first
    pc,             \* per thread: position in the innermost method
    key,            \* per thread: instance_id of the innermost call
    code,           \* per thread: lisp_code of execute
    rv,             \* per thread: value the last finished inner call handed back
    ret,            \* per thread: outcome of the finished outermost call
    conn,           \* per thread: local `connection` of execute / docinfo / disconnect
    gconn,          \* per thread: local `connection` of get_connection
    capp,           \* per thread: local `app` of connect_to_autocad
    todo,           \* per thread: keys a loop has still to visit
    isize,          \* per thread: size of the dict when its iterator was made
    count,          \* per thread: local `count` of disconnect_all
    recs,           \* per thread: local `connections` list of list_connections
    lalive,         \* per thread: "connected" value list_connections just probed
    op,             \* per thread: the outermost call
    pre,            \* per thread: registry when the outermost call began
    preCom,         \* per thread: _com_initialized when the outermost call began
    trace,          \* per thread: what the outermost call has done so far
    request,        \* the HTTP request a route handler is serving
    served,         \* how many requests the drawing routes have taken
    response,       \* the HTTP response the simulated server gave last
    autocad_connections, \* src/main.py: the simulated server's store
    connected_before,    \* ids a connect_to_autocad request has answered 200 for
    fn,             \* the utility or generator function under evaluation
    arg,            \* its argument
    out             \* what it has returned so far

envVars == <<win32, launched, running, supportLisp, docOpen>>
frameVars == <<stack, pc, key, code, rv, ret>>
localVars == <<conn, gconn, capp, todo, isize, count, recs, lalive>>
histVars == <<op, pre, preCom, trace>>
simVars == <<response, autocad_connections, connected_before>>
pureVars == <<fn, arg, out>>
auxVars == <<request, served, simVars, pureVars>>
registryVars ==
    <<connections, comInit, envVars, frameVars, localVars, histVars>>
vars == <<registryVars, auxVars>>

\* ----------------------------------------------------------------- helpers
Last(s) == s[Len(s)]
Front(s) == SubSeq(s, 1, Len(s) - 1)
Registered(k) == k \in DOMAIN connections
Remove(f, k) == [x \in DOMAIN f \ {k} |-> f[x]]
Put(f, k, v) == [x \in DOMAIN f \cup {k} |-> IF x = k THEN v ELSE f[x]]

\* ------------------------------------------------------- utils.py: geometry
\* models.py Point; parse_point and the tests fill z with 0 when it is left out
Point(x, y, z) == [x |-> x, y |-> y, z |-> z]
Abs(n) == IF n < 0 THEN -n ELSE n

\* A float that is a whole number of halves, kept exactly: `twice` is two
\* times its value (abs(area) / 2.0 of integer coordinates is such a number).
Halves(n) == [twice |-> n]
Whole(n) == [twice |-> 2 * n]
FloatLess(a, n) == a.twice < 2 * n

\* variant: the loop stops at the last vertex and never wraps to the first
RECURSIVE ShoelaceLoopOpen(_, _, _)
ShoelaceLoopOpen(points, i, area) ==
    IF i >= Len(points) - 1 THEN area
    ELSE LET j == i + 1
             plus == area + points[i + 1].x * points[j + 1].y
             minus == plus - points[j + 1].x * points[i + 1].y
         IN  ShoelaceLoopOpen(points, i + 1, minus)

\* the for loop of calculate_area_from_points, i counting from 0
RECURSIVE ShoelaceLoop(_, _, _)
ShoelaceLoop(points, i, area) ==
    IF i >= Len(points) THEN area
    ELSE LET j == (i + 1) % Len(points)
             plus == area + points[i + 1].x * points[j + 1].y
             minus == plus - points[j + 1].x * points[i + 1].y
         IN  ShoelaceLoop(points, i + 1, minus)

\* variant: the sign of the sum is kept
CalculateAreaSigned(points) ==
    IF Len(points) < 3 THEN Whole(0)
    ELSE Halves(ShoelaceLoop(points, 0, 0))

CalculateAreaFromPoints(points) ==
    IF Len(points) < 3 THEN Whole(0)
    ELSE Halves(Abs(ShoelaceLoop(points, 0, 0)))

\* ------------------------------------------------------- utils.py: strings
\* A string is the sequence of its characters.
Min(a, b) == IF a < b THEN a ELSE b

\* str.replace(c, r) for a one-character c and a replacement text r
RECURSIVE Replace(_, _, _)
Replace(text, c, r) ==
    IF text = <<>> THEN <<>>
    ELSE (IF Head(text) = c THEN r ELSE <<Head(text)>>)
             \o Replace(Tail(text), c, r)

\* str.replace(c, d) for one-character c and d: the length stays
ReplaceChar(text, c, d) ==
    IF text = <<>> THEN <<>>
    ELSE [i \in 1..Len(text) |-> IF text[i] = c THEN d ELSE text[i]]

\* variant: the quotes are escaped before the backslashes are doubled
FormatLispStringQuotesFirst(text) ==
    LET step1 == Replace(text, "\"", <<"\\", "\"">>)
        step2 == Replace(step1, "\\", <<"\\", "\\">>)
    IN  <<"\"">> \o step2 \o <<"\"">>

\* format_lisp_string: backslashes are doubled first, then every quote gets a
\* backslash, then the text is put between quotes
FormatLispString(text) ==
    LET step1 == Replace(text, "\\", <<"\\", "\\">>)
        step2 == Replace(step1, "\"", <<"\\", "\"">>)
    IN  <<"\"">> \o step2 \o <<"\"">>

\* sanitize_layer_name
\* variant: the asterisk is not in the list
InvalidCharsNoStar == <<"<", ">", ":", "\"", "/", "\\", "|", "?">>
InvalidChars == <<"<", ">", ":", "\"", "/", "\\", "|", "?", "*">>
Digits == {"0", "1", "2", "3", "4", "5", "6", "7", "8", "9"}
LayerNameLimit == 255
DefaultLayer ==
    <<"D", "E", "F", "A", "U", "L", "T", "_", "L", "A", "Y", "E", "R">>

\* `for char in invalid_chars: name = name.replace(char, '_')`
RECURSIVE ReplaceInvalid(_, _)
ReplaceInvalid(name, chars) ==
    IF chars = <<>> THEN name
    ELSE ReplaceInvalid(ReplaceChar(name, Head(chars), "_"), Tail(chars))

\* variant: the name is cut to the limit before the underscore is put in front
SanitizeTruncateFirst(name) ==
    LET replaced == ReplaceInvalid(name, InvalidChars)
        cut == SubSeq(replaced, 1, Min(LayerNameLimit, Len(replaced)))
        prefixed == IF cut # <<>> /\ cut[1] \in Digits
                    THEN <<"_">> \o cut
                    ELSE cut
    IN  IF prefixed # <<>> THEN prefixed ELSE DefaultLayer

SanitizeLayerName(name) ==
    LET replaced == ReplaceInvalid(name, InvalidChars)
        prefixed == IF replaced # <<>> /\ replaced[1] \in Digits
                    THEN <<"_">> \o replaced
                    ELSE replaced
    IN  IF prefixed # <<>>
        THEN SubSeq(prefixed, 1, Min(LayerNameLimit, Len(prefixed)))
        ELSE DefaultLayer

\* ------------------------------------------------ lisp_generator.py: texts
\* A generated text is the sequence of its tokens; a caller's string that is
\* spliced in contributes its characters.  Numbers are written by str().
Num(n) == ToString(n)
Coords(p) == <<Num(p.x), Num(p.y), Num(p.z)>>

\* format_lisp_point: '(x y z)
FormatLispPoint(point) == <<"'", "(">> \o Coords(point) \o <<")">>

\* format_lisp_point_list: '((x y z) (x y z) ...)
RECURSIVE PointStrings(_)
PointStrings(points) ==
    IF points = <<>> THEN <<>>
    ELSE <<"(">> \o Coords(Head(points)) \o <<")">>
             \o PointStrings(Tail(points))
FormatLispPointList(points) == <<"'", "(">> \o PointStrings(points) \o <<")">>

\* models.py: the enumerations, by member name
SwingDirection == {"LEFT_IN", "LEFT_OUT", "RIGHT_IN", "RIGHT_OUT"}
DoorType == {"SINGLE", "DOUBLE", "SLIDING", "POCKET"}
WindowType == {"FIXED", "CASEMENT", "SLIDING", "DOUBLE_HUNG", "AWNING"}
GlassType == {"SINGLE", "DOUBLE", "TRIPLE", "TEMPERED"}
FurnitureType == {"CHAIR", "TABLE", "BED", "SOFA", "DESK"}
\* member.value: the member's name, but for WindowType.DOUBLE_HUNG
EnumValue(member) == IF member = "DOUBLE_HUNG" THEN "DOUBLE-HUNG" ELSE member

\* the dictionaries with their .get(key, fallback)
SwingAngle(swing_direction) ==
    CASE swing_direction = "LEFT_IN" -> 0
      [] swing_direction = "LEFT_OUT" -> 180
      [] swing_direction = "RIGHT_IN" -> 90
      [] swing_direction = "RIGHT_OUT" -> 270
      [] OTHER -> 90
\* variant: POCKET gets a function of its own instead of the fallback
DoorFuncPocket(door_type) ==
    CASE door_type = "SINGLE" -> "c:create-door-single"
      [] door_type = "DOUBLE" -> "c:create-door-double"
      [] door_type = "SLIDING" -> "c:create-door-sliding"
      [] door_type = "POCKET" -> "c:create-door-pocket"
      [] OTHER -> "c:create-door-single"
DoorFunc(door_type) ==
    CASE door_type = "SINGLE" -> "c:create-door-single"
      [] door_type = "DOUBLE" -> "c:create-door-double"
      [] door_type = "SLIDING" -> "c:create-door-sliding"
      [] OTHER -> "c:create-door-single"
WindowFunc(window_type) ==
    CASE window_type = "FIXED" -> "c:create-window-fixed"
      [] window_type = "CASEMENT" -> "c:create-window-casement"
      [] window_type = "SLIDING" -> "c:create-window-sliding"
      [] OTHER -> "c:create-window-fixed"
FurnitureBlock(furniture_type) ==
    CASE furniture_type = "CHAIR" -> "CHAIR_BLOCK"
      [] furniture_type = "TABLE" -> "TABLE_BLOCK"
      [] furniture_type = "BED" -> "BED_BLOCK"
      [] furniture_type = "SOFA" -> "SOFA_BLOCK"
      [] furniture_type = "DESK" -> "DESK_BLOCK"
      [] OTHER -> "GENERIC_FURNITURE"

\* `f'"{ref_id}"' if ref_id else 'nil'`: None and "" are both <<>> here
RefIdParam(ref_id) ==
    IF ref_id # <<>> THEN <<"\"">> \o ref_id \o <<"\"">> ELSE <<"nil">>

\* the default of insert_door's wall_thickness, as str() writes it
DefaultWallThickness == "100.0"

CreateWall(start_point, end_point, thickness, height) ==
    <<"(", "create-architectural-wall">> \o FormatLispPoint(start_point)
        \o FormatLispPoint(end_point) \o <<Num(thickness), Num(height), ")">>

InsertDoor(wall_reference, position, width, height, swing_direction, door_type, ref_id) ==
    <<"(", "c:create-door", Num(position.x), Num(position.y), Num(width),
      Num(height), DefaultWallThickness, Num(SwingAngle(swing_direction)),
      "\"", EnumValue(door_type), "\"">> \o RefIdParam(ref_id) \o <<")">>

InsertWindow(wall_reference, position, width, height, sill_height, window_type, glass_type, ref_id) ==
    <<"(", "c:create-window", Num(position.x), Num(position.y), Num(width),
      Num(height), Num(sill_height), "\"", EnumValue(window_type), "\"",
      "\"", EnumValue(glass_type), "\"">> \o RefIdParam(ref_id) \o <<")">>

\* create_room and insert_furniture return a defun followed by its call; the
\* fixed lines of the defun's body, which splice in no argument, are one
\* token ("room-body", "furniture-body").
CreateRoom(points, height) ==
    <<"(", "defun", "create-room", "(", "points", "height", ")",
      "(", "setq", "points">> \o FormatLispPointList(points) \o <<")",
      "(", "setq", "height", Num(height), ")",
      "room-body",
      "(", "create-room">> \o FormatLispPointList(points)
        \o <<Num(height), ")">>

InsertFurniture(insertion_point, furniture_type, rotation, scale) ==
    LET block_name == <<FurnitureBlock(furniture_type)>> IN
    <<"(", "defun", "insert-furniture",
      "(", "pos", "block-name", "rotation", "scale", ")",
      "(", "setq", "pos">> \o FormatLispPoint(insertion_point) \o <<")",
      "(", "setq", "block-name">> \o FormatLispString(block_name) \o <<")",
      "(", "setq", "rotation", Num(rotation), ")",
      "(", "setq", "scale", Num(scale), ")",
      "furniture-body",
      "(", "insert-furniture">> \o FormatLispPoint(insertion_point)
        \o FormatLispString(block_name) \o <<Num(rotation), Num(scale), ")">>

InsertDoorSimple(position, width, height, door_type, ref_id) ==
    <<"(", DoorFunc(door_type), Num(position.x), Num(position.y), Num(width),
      Num(height)>> \o RefIdParam(ref_id) \o <<")">>

InsertWindowSimple(position, width, height, sill_height, window_type, ref_id) ==
    <<"(", WindowFunc(window_type), Num(position.x), Num(position.y),
      Num(width), Num(height), Num(sill_height)>> \o RefIdParam(ref_id)
        \o <<")">>

\* create_layer and add_text_note return a defun followed by its call; the
\* fixed lines of the defun's body are one token ("layer-body", "text-body")
CreateLayer(name, color, line_type, line_weight) ==
    LET safe_name == SanitizeLayerName(name) IN
    <<"(", "defun", "create-layer",
      "(", "name", "color", "linetype", "lineweight", ")",
      "(", "setq", "name">> \o FormatLispString(safe_name) \o <<")",
      "(", "setq", "color", Num(color), ")",
      "(", "setq", "linetype">> \o FormatLispString(line_type) \o <<")",
      "(", "setq", "lineweight", Num(line_weight), ")",
      "layer-body",
      "(", "create-layer">> \o FormatLispString(safe_name) \o <<Num(color)>>
        \o FormatLispString(line_type) \o <<Num(line_weight), ")">>

AddTextNote(insertion_point, text_string, height, rotation) ==
    <<"(", "defun", "add-text-note",
      "(", "pos", "text", "height", "rotation", ")",
      "(", "setq", "pos">> \o FormatLispPoint(insertion_point) \o <<")",
      "(", "setq", "text">> \o FormatLispString(text_string) \o <<")",
      "(", "setq", "height", Num(height), ")",
      "(", "setq", "rotation", Num(rotation), ")",
      "text-body",
      "(", "add-text-note">> \o FormatLispPoint(insertion_point)
        \o FormatLispString(text_string)
        \o <<Num(height), Num(rotation), ")">>

\* autocad_interface.py set_current_layer: the text it hands to execute_lisp
SetCurrentLayer(layer_name, instance_id) ==
    <<"(", "setvar", "\"", "CLAYER", "\"", "\"">> \o layer_name
        \o <<"\"", ")">>

RECURSIVE Perms(_)
Perms(S) ==
    IF S = {} THEN {<<>>}
    ELSE UNION {{<<x>> \o p : p \in Perms(S \ {x})} : x \in S}

\* is_connection_alive: a null handle is not alive; reading application.Name
\* faults exactly when the handle's process is not the running one.
IsConnectionAlive(s) ==
    /\ s.application # None
    /\ s.application = running

\* The sessions a registry handed to the interface may hold under key k: a
\* null handle, or a handle to the first process with or without a document
\* attribute (no method reads the document of a session whose handle is null).
SeedSessions(k) ==
    {Session(k, None, FALSE, TRUE)} \cup {Session(k, 1, d, TRUE) : d \in BOOLEAN}
SeedRegistries ==
    UNION {[S -> UNION {SeedSessions(k) : k \in S}] : S \in SUBSET Keys}
WellKeyed(f) == \A k \in DOMAIN f : f[k].sid = k

\* nothing is being served or evaluated outside the interface
NoRequest == [route |-> "none"]
NoResponse == [status |-> 0]
InitHttp ==
    /\ request = NoRequest
    /\ served = 0
    /\ response = NoResponse
    /\ autocad_connections = {}
    /\ connected_before = {}
InitAux ==
    /\ InitHttp
    /\ fn = "none"
    /\ arg = <<>>
    /\ out = <<>>

InitEnv ==
    /\ connections \in {f \in SeedRegistries : WellKeyed(f)}
    /\ comInit \in (IF DOMAIN connections = {} THEN BOOLEAN ELSE {TRUE})
    /\ win32 \in BOOLEAN
    /\ launched = 1
    /\ running \in (IF win32 THEN {None, 1} ELSE {None})
    /\ supportLisp \in {0, 1}
    /\ docOpen \in (IF running # None THEN BOOLEAN ELSE {FALSE})

InitThreads ==
    /\ stack = [t \in Threads |-> <<>>]
    /\ pc = [t \in Threads |-> "idle"]
    /\ key = [t \in Threads |-> 1]
    /\ code = [t \in Threads |-> <<>>]
    /\ rv = [t \in Threads |-> NoVal]
    /\ ret = [t \in Threads |-> NoVal]
    /\ conn = [t \in Threads |-> NoSession]
    /\ gconn = [t \in Threads |-> NoSession]
    /\ capp = [t \in Threads |-> None]
    /\ todo = [t \in Threads |-> <<>>]
    /\ isize = [t \in Threads |-> 0]
    /\ count = [t \in Threads |-> 0]
    /\ recs = [t \in Threads |-> <<>>]
    /\ lalive = [t \in Threads |-> FALSE]
    /\ op = [t \in Threads |-> "none"]
    /\ pre = [t \in Threads |-> connections]
    /\ preCom = [t \in Threads |-> comInit]
    /\ trace = [t \in Threads |-> <<>>]

Init == InitEnv /\ InitThreads /\ InitAux

\* ------------------------------------------------------ control flow
Ev(name, text) == [ev |-> name, text |-> text]
Log(t, name) == trace' = [trace EXCEPT ![t] = Append(@, Ev(name, <<>>))]
LogText(t, name, text) ==
    trace' = [trace EXCEPT ![t] = Append(@, Ev(name, text))]
Did(t, name) == \E i \in 1..Len(trace[t]) : trace[t][i].ev = name

ConnectWrap(m) == <<"Failed to connect to AutoCAD: ">> \o m
ExecuteWrap(m) == <<"Failed to execute LISP code: ">> \o m
InitComWrap(m) == <<"Failed to initialize COM library: ">> \o m
SaveWrap(m) == <<"Failed to save drawing: ">> \o m
LoadWrap(m) == <<"Failed to load LISP file: ">> \o m
LoadNotFound == <<"LISP file not found: ", "filepath">>

\* the except clauses: `except Exception` takes every fault of the model
\* variant: connect takes only the automation layer's own error type
ConnectCatchesComOnly(exc) == exc = "com_error"
ConnectCatches(exc) == TRUE
\* variant: execute takes only the connection error
ExecuteCatchesConnectionOnly(exc) == exc = "AutoCADConnectionError"
ExecuteCatches(exc) == TRUE
DisconnectCatches(exc) == TRUE
SaveCatches(exc) == TRUE
LoadCatches(exc) == TRUE
EndpointCatches(exc) == TRUE
DocInfoCatches(exc) == TRUE

\* An exception raised in the innermost method of stk travels outwards until
\* an except clause takes it.  The result names the stack that is left, the
\* method that ended, and the value that method hands to its caller (or the
\* exception that left the outermost call).
RECURSIVE Unwind(_, _, _)
Unwind(stk, exc, m) ==
    IF stk = <<>>
    THEN [stk |-> <<>>, callee |-> "", val |-> RaiseV(exc, m)]
    ELSE LET f == Last(stk)
             rest == Front(stk)
         IN  CASE f = "connect" /\ ConnectCatches(exc) ->
                    Unwind(rest, "AutoCADConnectionError", ConnectWrap(m))
               [] f = "execute" /\ ExecuteCatches(exc) ->
                    [stk |-> rest, callee |-> f,
                     val |-> ResultV(FALSE, ExecuteWrap(m))]
               [] f = "save" /\ SaveCatches(exc) ->
                    [stk |-> rest, callee |-> f,
                     val |-> ResultV(FALSE, SaveWrap(m))]
               [] f = "load" /\ exc = "FileNotFoundError" ->
                    [stk |-> rest, callee |-> f,
                     val |-> ResultV(FALSE, LoadNotFound)]
               [] f = "load" /\ LoadCatches(exc) ->
                    [stk |-> rest, callee |-> f,
                     val |-> ResultV(FALSE, LoadWrap(m))]
               [] f = "endpoint" /\ EndpointCatches(exc) ->
                    [stk |-> rest, callee |-> f, val |-> HttpV(400, FALSE)]
               [] f = "docinfo" /\ DocInfoCatches(exc) ->
                    [stk |-> rest, callee |-> f, val |-> DocInfoV(FALSE, m)]
               [] f = "disconnect" /\ DisconnectCatches(exc) ->
                    [stk |-> rest, callee |-> f, val |-> BoolV(FALSE)]
               [] OTHER -> Unwind(rest, exc, m)

\* where a caller goes on when the method it called has ended
Cont(caller, callee) ==
    CASE caller = "execute" -> "e_resolved"
      [] caller = "save" -> "e_resolved"
      [] caller = "load" -> "f_return"
      [] caller = "endpoint" -> "h_respond"
      [] caller = "docinfo" -> "i_got"
      [] caller = "list" -> "l_info"
      [] caller = "disconnect_all" -> "a_counted"
      [] OTHER -> "done"

Deliver(t, rest, callee, val) ==
    /\ stack' = [stack EXCEPT ![t] = rest]
    /\ IF rest = <<>>
       THEN /\ pc' = [pc EXCEPT ![t] = "done"]
            /\ ret' = [ret EXCEPT ![t] = val]
            /\ rv' = [rv EXCEPT ![t] = NoVal]
       ELSE /\ pc' = [pc EXCEPT ![t] = Cont(Last(rest), callee)]
            /\ rv' = [rv EXCEPT ![t] = val]
            /\ UNCHANGED ret

Return(t, val) == Deliver(t, Front(stack[t]), Last(stack[t]), val)
Raise(t, exc, m) ==
    LET u == Unwind(stack[t], exc, m) IN Deliver(t, u.stk, u.callee, u.val)
Goto(t, label) ==
    /\ pc' = [pc EXCEPT ![t] = label]
    /\ UNCHANGED <<stack, rv, ret>>
CallInner(t, callees, entry) ==
    /\ stack' = [stack EXCEPT ![t] = @ \o callees]
    /\ pc' = [pc EXCEPT ![t] = entry]
    /\ UNCHANGED <<rv, ret>>

\* a caller starts an outermost call
Enter(t, f, entry, k, c, order) ==
    /\ pc[t] \in {"idle", "done"}
    /\ stack' = [stack EXCEPT ![t] = <<f>>]
    /\ pc' = [pc EXCEPT ![t] = entry]
    /\ key' = [key EXCEPT ![t] = k]
    /\ code' = [code EXCEPT ![t] = c]
    /\ rv' = [rv EXCEPT ![t] = NoVal]
    /\ ret' = [ret EXCEPT ![t] = NoVal]
    /\ conn' = [conn EXCEPT ![t] = NoSession]
    /\ gconn' = [gconn EXCEPT ![t] = NoSession]
    /\ capp' = [capp EXCEPT ![t] = None]
    /\ todo' = [todo EXCEPT ![t] = order]
    /\ isize' = [isize EXCEPT ![t] = Len(order)]
    /\ count' = [count EXCEPT ![t] = 0]
    /\ recs' = [recs EXCEPT ![t] = <<>>]
    /\ lalive' = [lalive EXCEPT ![t] = FALSE]
    /\ op' = [op EXCEPT ![t] = f]
    /\ pre' = [pre EXCEPT ![t] = connections]
    /\ preCom' = [preCom EXCEPT ![t] = comInit]
    /\ trace' = [trace EXCEPT ![t] = <<>>]

Begin(t, f, entry, k, c, order) ==
    /\ Enter(t, f, entry, k, c, order)
    /\ UNCHANGED <<connections, comInit, envVars, auxVars>>

CallConnect(t) ==
    \E k \in Keys : Begin(t, "connect", "c_init", k, <<>>, <<>>)
CallGet(t) ==
    \E k \in Keys : Begin(t, "get", "g_lookup", k, <<>>, <<>>)
CallExecute(t) ==
    \E k \in Keys, c \in Codes : Begin(t, "execute", "e_init", k, c, <<>>)
\* save_current_drawing runs the statements of execute_lisp up to the
\* validation (lines 274-284 repeat lines 191-200) and so shares its steps
CallSave(t) ==
    \E k \in Keys : Begin(t, "save", "e_init", k, <<>>, <<>>)
CallLoad(t) ==
    \E k \in Keys : Begin(t, "load", "f_read", k, <<>>, <<>>)
CallDisconnect(t) ==
    \E k \in Keys : Begin(t, "disconnect", "d_check", k, <<>>, <<>>)
\* disconnect_all walks list(self.connections.keys()), list_connections walks
\* self.connections.items(): the dict's insertion order, which is any order
CallDisconnectAll(t) ==
    \E o \in Perms(DOMAIN connections) :
        Begin(t, "disconnect_all", "a_loop", key[t], <<>>, o)
CallList(t) ==
    \E o \in Perms(DOMAIN connections) :
        Begin(t, "list", "l_next", key[t], <<>>, o)

\* ------------------------------------------------------ COM bookkeeping
\* _initialize_com, as the first statement of connect and of execute
InitializeCom(t) ==
    /\ pc[t] \in {"c_init", "e_init"}
    /\ \/ /\ comInit' = TRUE
          /\ Goto(t, IF pc[t] = "c_init" THEN "c_attach" ELSE "e_get")
          /\ UNCHANGED trace
       \/ /\ win32
          /\ Raise(t, "AutoCADConnectionError", InitComWrap(<<"CoInitialize fault">>))
          /\ LogText(t, "init_fault", <<"CoInitialize fault">>)
          /\ UNCHANGED comInit
    /\ UNCHANGED <<connections, envVars, auxVars, key, code, localVars, op,
                   pre, preCom>>

\* _uninitialize_com: the flag falls only when the release call went through;
\* a fault of CoUninitialize is logged and swallowed
UninitializeCom(t) ==
    IF comInit /\ win32
    THEN \/ comInit' = FALSE /\ Log(t, "released")
         \/ UNCHANGED comInit /\ Log(t, "release_fault")
    ELSE IF comInit
    THEN comInit' = FALSE /\ Log(t, "released")
    ELSE UNCHANGED comInit /\ Log(t, "release_noop")

\* ------------------------------------------------------ connect_to_autocad
NewSid(t) == NumKeys + ThreadIdx(t)

\* GetActiveObject: the running application, or a fault the bare except takes
ConnectAttach(t) ==
    /\ pc[t] = "c_attach"
    /\ IF win32 /\ running # None
       THEN /\ capp' = [capp EXCEPT ![t] = running]
            /\ Goto(t, "c_support")
            /\ Log(t, "attached")
       ELSE /\ Goto(t, "c_launch")
            /\ Log(t, "attach_fault")
            /\ UNCHANGED capp
    /\ UNCHANGED <<connections, comInit, envVars, auxVars, key, code, conn, gconn,
                   todo, isize, count, recs, lalive, op, pre, preCom>>

\* Dispatch: starts the application (or reaches the one that runs), or faults
ConnectLaunch(t) ==
    /\ pc[t] = "c_launch"
    /\ IF ~win32
       THEN /\ Raise(t, "Exception", <<"Cannot start AutoCAD">>)
            /\ LogText(t, "launch_fault", <<"Cannot start AutoCAD">>)
            /\ UNCHANGED <<capp, launched, running, docOpen>>
       ELSE \/ /\ Raise(t, "com_error", <<"Dispatch fault">>)
               /\ LogText(t, "launch_fault", <<"Dispatch fault">>)
               /\ UNCHANGED <<capp, launched, running, docOpen>>
            \/ /\ running # None
               /\ capp' = [capp EXCEPT ![t] = running]
               /\ Goto(t, "c_support")
               /\ Log(t, "launched")
               /\ UNCHANGED <<launched, running, docOpen>>
            \/ /\ running = None
               /\ launched < NumApps
               /\ launched' = launched + 1
               /\ running' = launched + 1
               /\ docOpen' \in BOOLEAN
               /\ capp' = [capp EXCEPT ![t] = launched + 1]
               /\ Goto(t, "c_support")
               /\ Log(t, "launched")
    /\ UNCHANGED <<connections, comInit, win32, auxVars, supportLisp, key, code, conn,
                   gconn, todo, isize, count, recs, lalive, op, pre, preCom>>

\* variant: the support path is read and never written
ConnectSupportPathNever(t) ==
    /\ pc[t] = "c_support"
    /\ IF capp[t] = running
       THEN /\ Goto(t, "c_doc")
            /\ Log(t, "support")
       ELSE /\ Raise(t, "com_error", <<"Preferences fault">>)
            /\ LogText(t, "support_fault", <<"Preferences fault">>)
    /\ UNCHANGED <<connections, comInit, envVars, auxVars, key, code, localVars,
                   op, pre, preCom>>

\* the support path gains the lisp folder when it does not hold it yet
ConnectSupportPath(t) ==
    /\ pc[t] = "c_support"
    /\ IF capp[t] = running
       THEN /\ supportLisp' = (IF supportLisp = 0 THEN 1 ELSE supportLisp)
            /\ Goto(t, "c_doc")
            /\ Log(t, "support")
       ELSE /\ Raise(t, "com_error", <<"Preferences fault">>)
            /\ LogText(t, "support_fault", <<"Preferences fault">>)
            /\ UNCHANGED supportLisp
    /\ UNCHANGED <<connections, comInit, win32, auxVars, launched, running, docOpen,
                   key, code, localVars, op, pre, preCom>>

\* ActiveDocument, else Documents.Add; then ModelSpace
ConnectDocument(t) ==
    /\ pc[t] = "c_doc"
    /\ IF capp[t] # running
       THEN /\ Raise(t, "com_error", <<"Documents.Add fault">>)
            /\ LogText(t, "doc_fault", <<"Documents.Add fault">>)
            /\ UNCHANGED docOpen
       ELSE IF docOpen
       THEN /\ Goto(t, "c_register")
            /\ Log(t, "doc")
            /\ UNCHANGED docOpen
       ELSE \/ /\ docOpen' = TRUE
               /\ Goto(t, "c_register")
               /\ Log(t, "doc")
            \/ /\ Raise(t, "com_error", <<"Documents.Add fault">>)
               /\ LogText(t, "doc_fault", <<"Documents.Add fault">>)
               /\ UNCHANGED docOpen
    /\ UNCHANGED <<connections, comInit, win32, auxVars, launched, running, supportLisp,
                   key, code, localVars, op, pre, preCom>>

\* variant: the key's old entry is dropped before the session is built
ConnectRegisterDropsOld(t) ==
    /\ pc[t] = "c_register"
    /\ Raise(t, "TypeError", <<"unexpected keyword argument">>)
    /\ LogText(t, "ctor_fault", <<"unexpected keyword argument">>)
    /\ connections' = Remove(connections, key[t])
    /\ UNCHANGED <<comInit, envVars, auxVars, key, code, localVars, op, pre, preCom>>

\* AutoCADConnection(...) and self.connections[instance_id] = connection
ConnectRegister(t) ==
    /\ pc[t] = "c_register"
    /\ IF ConnectKwargs \subseteq AutoCADConnectionFields
       THEN LET s == Session(NewSid(t), capp[t], TRUE, TRUE)
            IN  /\ connections' = Put(connections, key[t], s)
                /\ Return(t, SessionV(s))
                /\ Log(t, "registered")
       ELSE /\ Raise(t, "TypeError", <<"unexpected keyword argument">>)
            /\ LogText(t, "ctor_fault", <<"unexpected keyword argument">>)
            /\ UNCHANGED connections
    /\ UNCHANGED <<comInit, envVars, auxVars, key, code, localVars, op, pre, preCom>>

\* ---------------------------------------------------------- get_connection
GetLookup(t) ==
    /\ pc[t] = "g_lookup"
    /\ IF Registered(key[t])
       THEN /\ gconn' = [gconn EXCEPT ![t] = connections[key[t]]]
            /\ Goto(t, "g_probe")
       ELSE /\ gconn' = [gconn EXCEPT ![t] = NoSession]
            /\ Return(t, AbsentV)
    /\ Log(t, IF Registered(key[t]) THEN "found" ELSE "not_found")
    /\ UNCHANGED <<connections, comInit, envVars, auxVars, key, code, conn, capp,
                   todo, isize, count, recs, lalive, op, pre, preCom>>

GetProbe(t) ==
    /\ pc[t] = "g_probe"
    /\ IF IsConnectionAlive(gconn[t])
       THEN /\ Return(t, SessionV(gconn[t]))
            /\ Log(t, "get_alive")
       ELSE /\ Goto(t, "g_del")
            /\ Log(t, "get_dead")
    /\ UNCHANGED <<connections, comInit, envVars, auxVars, key, code, localVars,
                   op, pre, preCom>>

\* variant: a failed probe answers absent and leaves the entry in place
GetEvictKeep(t) ==
    /\ pc[t] = "g_del"
    /\ Return(t, AbsentV)
    /\ Log(t, "evict")
    /\ UNCHANGED <<connections, comInit, envVars, auxVars, key, code, localVars,
                   op, pre, preCom>>

GetEvict(t) ==
    /\ pc[t] = "g_del"
    /\ IF Registered(key[t])
       THEN /\ connections' = Remove(connections, key[t])
            /\ Return(t, AbsentV)
            /\ Log(t, "evict")
       ELSE /\ Raise(t, "KeyError", <<"KeyError">>)
            /\ LogText(t, "evict_fault", <<"KeyError">>)
            /\ UNCHANGED connections
    /\ UNCHANGED <<comInit, envVars, auxVars, key, code, localVars, op, pre, preCom>>

\* ------------------------------------------------------------ execute_lisp
ExecuteResolve(t) ==
    /\ pc[t] = "e_get"
    /\ CallInner(t, <<"get">>, "g_lookup")
    /\ UNCHANGED <<connections, comInit, envVars, auxVars, key, code, localVars,
                   histVars>>

\* variant: an absent session is not connected, execute goes on without one
ExecuteResolvedNoConnect(t) ==
    /\ pc[t] = "e_resolved"
    /\ conn' = [conn EXCEPT ![t] = rv[t].sess]
    /\ Goto(t, "e_validate")
    /\ UNCHANGED <<connections, comInit, envVars, auxVars, key, code, gconn, capp,
                   todo, isize, count, recs, lalive, histVars>>

\* `if not connection: connection = self.connect_to_autocad(instance_id)`
ExecuteResolved(t) ==
    /\ pc[t] = "e_resolved"
    /\ IF rv[t].kind = "session"
       THEN /\ conn' = [conn EXCEPT ![t] = rv[t].sess]
            /\ Goto(t, "e_validate")
            /\ UNCHANGED trace
       ELSE /\ CallInner(t, <<"connect">>, "c_init")
            /\ Log(t, "connect")
            /\ UNCHANGED conn
    /\ UNCHANGED <<connections, comInit, envVars, auxVars, key, code, gconn, capp,
                   todo, isize, count, recs, lalive, op, pre, preCom>>

\* variant: the second probe is made but its answer is not acted on
ExecuteValidateAnyway(t) ==
    /\ pc[t] = "e_validate"
    /\ Goto(t, "e_send")
    /\ Log(t, IF IsConnectionAlive(conn[t]) THEN "valid" ELSE "invalid")
    /\ UNCHANGED <<connections, comInit, envVars, auxVars, key, code, localVars,
                   op, pre, preCom>>

ExecuteValidate(t) ==
    /\ pc[t] = "e_validate"
    /\ IF IsConnectionAlive(conn[t])
       THEN /\ Goto(t, "e_send")
            /\ Log(t, "valid")
       ELSE /\ Raise(t, "AutoCADConnectionError", <<"Failed to establish or validate AutoCAD connection">>)
            /\ LogText(t, "invalid",
                  <<"Failed to establish or validate AutoCAD connection">>)
    /\ UNCHANGED <<connections, comInit, envVars, auxVars, key, code, localVars,
                   op, pre, preCom>>

\* connection.document.SendStringToExecute(lisp_code + "\n", True)
\* variant: the text is sent as it came, without the terminator
ExecuteSendNoTerminator(t) ==
    /\ pc[t] = "e_send"
    /\ Last(stack[t]) = "execute"
    /\ IF ~conn[t].hasDoc
       THEN /\ Raise(t, "AttributeError", <<"no attribute 'document'">>)
            /\ LogText(t, "no_document", <<"no attribute 'document'">>)
       ELSE IF conn[t].application # running
       THEN /\ Raise(t, "com_error", <<"SendStringToExecute fault">>)
            /\ LogText(t, "send_fault", code[t])
       ELSE \/ /\ Return(t, ResultV(TRUE, <<>>))
               /\ LogText(t, "send", code[t])
            \/ /\ Raise(t, "com_error", <<"SendStringToExecute fault">>)
               /\ LogText(t, "send_fault", code[t])
    /\ UNCHANGED <<connections, comInit, envVars, auxVars, key, code, localVars,
                   op, pre, preCom>>

ExecuteSend(t) ==
    /\ pc[t] = "e_send"
    /\ Last(stack[t]) = "execute"
    /\ IF ~conn[t].hasDoc
       THEN /\ Raise(t, "AttributeError", <<"no attribute 'document'">>)
            /\ LogText(t, "no_document", <<"no attribute 'document'">>)
       ELSE IF conn[t].application # running
       THEN /\ Raise(t, "com_error", <<"SendStringToExecute fault">>)
            /\ LogText(t, "send_fault", code[t] \o <<"\n">>)
       ELSE \/ /\ Return(t, ResultV(TRUE, <<>>))
               /\ LogText(t, "send", code[t] \o <<"\n">>)
            \/ /\ Raise(t, "com_error", <<"SendStringToExecute fault">>)
               /\ LogText(t, "send_fault", code[t] \o <<"\n">>)
    /\ UNCHANGED <<connections, comInit, envVars, auxVars, key, code, localVars,
                   op, pre, preCom>>

\* ---------------------------------------------------- save_current_drawing
\* variant: the confirmation text is passed as the result's error_message
SaveAsTextInError(t) ==
    /\ pc[t] = "e_send"
    /\ Last(stack[t]) = "save"
    /\ IF ~conn[t].hasDoc
       THEN /\ Raise(t, "AttributeError", <<"no attribute 'document'">>)
            /\ LogText(t, "no_document", <<"no attribute 'document'">>)
       ELSE IF conn[t].application # running
       THEN /\ Raise(t, "com_error", <<"SaveAs fault">>)
            /\ LogText(t, "save_fault", <<"filepath">>)
       ELSE \/ /\ Return(t, ResultV(TRUE, <<"Drawing saved to ", "filepath">>))
               /\ LogText(t, "saved", <<"filepath">>)
            \/ /\ Raise(t, "com_error", <<"SaveAs fault">>)
               /\ LogText(t, "save_fault", <<"filepath">>)
    /\ UNCHANGED <<connections, comInit, envVars, auxVars, key, code, localVars,
                   op, pre, preCom>>

\* connection.document.SaveAs(filepath): the text "Drawing saved to ..." goes
\* into the result field, error_message keeps its default ""
SaveAs(t) ==
    /\ pc[t] = "e_send"
    /\ Last(stack[t]) = "save"
    /\ IF ~conn[t].hasDoc
       THEN /\ Raise(t, "AttributeError", <<"no attribute 'document'">>)
            /\ LogText(t, "no_document", <<"no attribute 'document'">>)
       ELSE IF conn[t].application # running
       THEN /\ Raise(t, "com_error", <<"SaveAs fault">>)
            /\ LogText(t, "save_fault", <<"filepath">>)
       ELSE \/ /\ Return(t, ResultV(TRUE, <<>>))
               /\ LogText(t, "saved", <<"filepath">>)
            \/ /\ Raise(t, "com_error", <<"SaveAs fault">>)
               /\ LogText(t, "save_fault", <<"filepath">>)
    /\ UNCHANGED <<connections, comInit, envVars, auxVars, key, code, localVars,
                   op, pre, preCom>>

\* ---------------------------------------------------------- load_lisp_file
\* open(filepath).read(): the file is missing, cannot be read, or gives the
\* text that is handed to execute_lisp
LoadRead(t) ==
    /\ pc[t] = "f_read"
    /\ \/ /\ Raise(t, "FileNotFoundError", <<"No such file or directory">>)
          /\ LogText(t, "read_fault", <<"No such file or directory">>)
          /\ UNCHANGED code
       \/ /\ Raise(t, "PermissionError", <<"Permission denied">>)
          /\ LogText(t, "read_fault", <<"Permission denied">>)
          /\ UNCHANGED code
       \/ /\ code' = [code EXCEPT ![t] = FileText]
          /\ CallInner(t, <<"execute">>, "e_init")
          /\ LogText(t, "read", FileText)
    /\ UNCHANGED <<connections, comInit, envVars, auxVars, key, localVars, op,
                   pre, preCom>>

\* `return self.execute_lisp(lisp_code, instance_id)`
LoadReturn(t) ==
    /\ pc[t] = "f_return"
    /\ Return(t, rv[t])
    /\ UNCHANGED <<connections, comInit, envVars, auxVars, key, code, localVars,
                   histVars>>


\* -------------------------------------------------------------- disconnect
\* variant: disconnect answers True whether or not the key was there
DisconnectCheckAlwaysTrue(t) ==
    /\ pc[t] = "d_check"
    /\ IF Registered(key[t])
       THEN Goto(t, "d_fetch")
       ELSE Return(t, BoolV(TRUE))
    /\ Log(t, IF Registered(key[t]) THEN "present" ELSE "not_present")
    /\ UNCHANGED <<connections, comInit, envVars, auxVars, key, code, localVars,
                   op, pre, preCom>>

DisconnectCheck(t) ==
    /\ pc[t] = "d_check"
    /\ IF Registered(key[t])
       THEN Goto(t, "d_fetch")
       ELSE Return(t, BoolV(FALSE))
    /\ Log(t, IF Registered(key[t]) THEN "present" ELSE "not_present")
    /\ UNCHANGED <<connections, comInit, envVars, auxVars, key, code, localVars,
                   op, pre, preCom>>

\* connection = self.connections[instance_id]; connection.connected = False
DisconnectFetch(t) ==
    /\ pc[t] = "d_fetch"
    /\ IF Registered(key[t])
       THEN /\ connections' = [connections EXCEPT ![key[t]].connected = FALSE]
            /\ conn' = [conn EXCEPT
                          ![t] = [connections[key[t]] EXCEPT !.connected = FALSE]]
            /\ Goto(t, "d_del")
       ELSE /\ Raise(t, "KeyError", <<"KeyError">>)
            /\ UNCHANGED <<connections, conn>>
    /\ UNCHANGED <<comInit, envVars, auxVars, key, code, gconn, capp, todo, isize,
                   count, recs, lalive, histVars>>

\* variant: a key that is gone is passed over (pop(instance_id, None))
DisconnectDeleteQuiet(t) ==
    /\ pc[t] = "d_del"
    /\ connections' = Remove(connections, key[t])
    /\ Goto(t, "d_last")
    /\ Log(t, "removed")
    /\ UNCHANGED <<comInit, envVars, auxVars, key, code, localVars, op, pre, preCom>>

DisconnectDelete(t) ==
    /\ pc[t] = "d_del"
    /\ IF Registered(key[t])
       THEN /\ connections' = Remove(connections, key[t])
            /\ Goto(t, "d_last")
            /\ Log(t, "removed")
       ELSE /\ Raise(t, "KeyError", <<"KeyError">>)
            /\ LogText(t, "remove_fault", <<"KeyError">>)
            /\ UNCHANGED connections
    /\ UNCHANGED <<comInit, envVars, auxVars, key, code, localVars, op, pre, preCom>>

\* variant: the release of COM after the last session is forgotten
DisconnectReleaseNever(t) ==
    /\ pc[t] = "d_last"
    /\ Log(t, IF DOMAIN connections = {} THEN "release_noop" ELSE "keep")
    /\ Return(t, BoolV(TRUE))
    /\ UNCHANGED <<connections, comInit, envVars, auxVars, key, code, localVars,
                   op, pre, preCom>>

\* variant: COM is released after every removal
DisconnectReleaseAlways(t) ==
    /\ pc[t] = "d_last"
    /\ UninitializeCom(t)
    /\ Return(t, BoolV(TRUE))
    /\ UNCHANGED <<connections, envVars, auxVars, key, code, localVars, op,
                   pre, preCom>>

\* `if not self.connections: self._uninitialize_com()`; return True
DisconnectRelease(t) ==
    /\ pc[t] = "d_last"
    /\ IF DOMAIN connections = {}
       THEN UninitializeCom(t)
       ELSE UNCHANGED comInit /\ Log(t, "keep")
    /\ Return(t, BoolV(TRUE))
    /\ UNCHANGED <<connections, envVars, auxVars, key, code, localVars, op,
                   pre, preCom>>

\* ---------------------------------------------------------- disconnect_all
DisconnectAllLoop(t) ==
    /\ pc[t] = "a_loop"
    /\ IF todo[t] = <<>>
       THEN /\ IF count[t] > 0
               THEN UninitializeCom(t)
               ELSE UNCHANGED <<comInit, trace>>
            /\ Return(t, CountV(count[t]))
            /\ UNCHANGED <<key, todo>>
       ELSE /\ key' = [key EXCEPT ![t] = Head(todo[t])]
            /\ todo' = [todo EXCEPT ![t] = Tail(@)]
            /\ CallInner(t, <<"disconnect">>, "d_check")
            /\ UNCHANGED <<comInit, trace>>
    /\ UNCHANGED <<connections, envVars, auxVars, code, conn, gconn, capp, isize,
                   count, recs, lalive, op, pre, preCom>>

\* variant: `count = 1` where the source has `count += 1`
DisconnectAllCountedSet(t) ==
    /\ pc[t] = "a_counted"
    /\ count' = [count EXCEPT ![t] = IF rv[t].ok THEN 1 ELSE @]
    /\ Goto(t, "a_loop")
    /\ UNCHANGED <<connections, comInit, envVars, auxVars, key, code, conn, gconn,
                   capp, todo, isize, recs, lalive, histVars>>

DisconnectAllCounted(t) ==
    /\ pc[t] = "a_counted"
    /\ count' = [count EXCEPT ![t] = IF rv[t].ok THEN @ + 1 ELSE @]
    /\ Goto(t, "a_loop")
    /\ UNCHANGED <<connections, comInit, envVars, auxVars, key, code, conn, gconn,
                   capp, todo, isize, recs, lalive, histVars>>

\* --------------------------------------------------------- list_connections
\* one step of `for instance_id, conn in self.connections.items()`: the dict
\* iterator refuses to go on when the dict's size is not the one it started on
ListNext(t) ==
    /\ pc[t] = "l_next"
    /\ IF Cardinality(DOMAIN connections) # isize[t]
       THEN /\ Raise(t, "RuntimeError",
                     <<"dictionary changed size during iteration">>)
            /\ UNCHANGED <<key, todo, conn>>
       ELSE IF todo[t] = <<>>
       THEN /\ Return(t, ListV(recs[t]))
            /\ UNCHANGED <<key, todo, conn>>
       ELSE /\ key' = [key EXCEPT ![t] = Head(todo[t])]
            /\ todo' = [todo EXCEPT ![t] = Tail(@)]
            /\ conn' = [conn EXCEPT ![t] = connections[Head(todo[t])]]
            /\ Goto(t, "l_probe")
    /\ UNCHANGED <<connections, comInit, envVars, auxVars, code, gconn, capp, isize,
                   count, recs, lalive, histVars>>

\* "connected": is_connection_alive(conn), then get_active_document_info,
\* whose first statement is get_connection(instance_id)
ListProbe(t) ==
    /\ pc[t] = "l_probe"
    /\ lalive' = [lalive EXCEPT ![t] = IsConnectionAlive(conn[t])]
    /\ CallInner(t, <<"docinfo", "get">>, "g_lookup")
    /\ Log(t, IF IsConnectionAlive(conn[t]) THEN "list_alive" ELSE "list_dead")
    /\ UNCHANGED <<connections, comInit, envVars, auxVars, key, code, conn, gconn,
                   capp, todo, isize, count, recs, op, pre, preCom>>

\* get_active_document_info after get_connection: doc = connection.document,
\* then the reads of doc.Name and the other document properties
DocInfoGot(t) ==
    /\ pc[t] = "i_got"
    /\ IF rv[t].kind # "session"
       THEN Return(t, DocInfoV(FALSE, <<"No active AutoCAD connection">>))
       ELSE IF ~rv[t].sess.hasDoc
       THEN Raise(t, "AttributeError", <<"no attribute 'document'">>)
       ELSE IF rv[t].sess.application # running
       THEN Raise(t, "com_error", <<"Name fault">>)
       ELSE Return(t, DocInfoV(TRUE, <<"Drawing1.dwg">>))
    /\ UNCHANGED <<connections, comInit, envVars, auxVars, key, code, localVars,
                   histVars>>

\* .get("name", "Unknown") and connections.append({...})
ListAppend(t) ==
    /\ pc[t] = "l_info"
    /\ recs' = [recs EXCEPT ![t] = Append(@,
                  [instance_id |-> key[t],
                   connected |-> lalive[t],
                   document_name |-> IF rv[t].ok THEN "Drawing1.dwg"
                                     ELSE "Unknown"])]
    /\ Goto(t, "l_next")
    /\ UNCHANGED <<connections, comInit, envVars, auxVars, key, code, conn, gconn,
                   capp, todo, isize, count, lalive, histVars>>

\* ------------------------------------------------------- app.py: endpoints
\* config/settings.py
MIN_DOOR_WIDTH == 32
MIN_WINDOW_WIDTH == 24
MIN_ROOM_AREA == 70

\* request.get_json(): a dict from field names to values
Without(data, field) == [f \in DOMAIN data \ {field} |-> data[f]]
With(data, field, v) ==
    [f \in DOMAIN data \cup {field} |-> IF f = field THEN v ELSE data[f]]

\* every body with all its fields, with one field left out, and with an
\* instance_id other than the default
Bodies(full) ==
    full \cup UNION {{Without(d, f) : f \in DOMAIN d} : d \in full}
         \cup {With(d, "instance_id", k) : d \in full, k \in Keys \ {1}}

\* the requests posted to the four routes: thickness and height around 0,
\* widths around the configured minimum, a swing value that is a member and
\* one that is none; for a room two points, a triangle of area 35 and a
\* rectangle of area 70
Requests ==
    LET RoomPoints ==
            {<<Point(0, 0, 0), Point(10, 0, 0)>>,
             <<Point(0, 0, 0), Point(10, 0, 0), Point(0, 7, 0)>>,
             <<Point(0, 0, 0), Point(10, 0, 0), Point(10, 7, 0),
               Point(0, 7, 0)>>}
        WallData ==
            {[start_point |-> Point(0, 0, 0), end_point |-> Point(100, 0, 0),
              thickness |-> th, height |-> h] :
                th \in {-6, 0, 6}, h \in {0, 96}}
        DoorData ==
            {[wall_reference |-> "wall_1", position |-> Point(50, 0, 0),
              width |-> w, height |-> 84, swing_direction |-> sd] :
                w \in {MIN_DOOR_WIDTH - 1, MIN_DOOR_WIDTH},
                sd \in {"left_in", "sideways"}}
        WindowData ==
            {[wall_reference |-> "wall_1", position |-> Point(30, 0, 0),
              width |-> w, height |-> 36, sill_height |-> 30] :
                w \in {MIN_WINDOW_WIDTH - 1, MIN_WINDOW_WIDTH}}
        RoomData == {[points |-> ps, height |-> 96] : ps \in RoomPoints}
    IN  {[route |-> "wall", data |-> d] : d \in Bodies(WallData)}
        \cup {[route |-> "door", data |-> d] : d \in Bodies(DoorData)}
        \cup {[route |-> "window", data |-> d] : d \in Bodies(WindowData)}
        \cup {[route |-> "room", data |-> d] : d \in Bodies(RoomData)}

RequiredFields(route) ==
    CASE route = "wall" -> {"start_point", "end_point", "thickness", "height"}
      [] route = "door" -> {"wall_reference", "position", "width", "height",
                            "swing_direction"}
      [] route = "window" -> {"wall_reference", "position", "width", "height",
                              "sill_height"}
      [] route = "room" -> {"points", "height"}

\* data.get('instance_id', 'default'); key 1 is "default"
InstanceId(data) ==
    IF "instance_id" \in DOMAIN data THEN data.instance_id ELSE 1

\* SwingDirection(value): the member with that value, ValueError otherwise
SwingMember(value) ==
    CASE value = "left_in" -> "LEFT_IN"
      [] value = "left_out" -> "LEFT_OUT"
      [] value = "right_in" -> "RIGHT_IN"
      [] value = "right_out" -> "RIGHT_OUT"
      [] OTHER -> "ValueError"

\* the statements of a route between get_json() and the generator call: the
\* text of the exception one of them raises, "none" when all of them pass
EndpointFault(req) ==
    LET data == req.data IN
    IF ~(RequiredFields(req.route) \subseteq DOMAIN data)
    THEN "Missing required fields"
    ELSE CASE req.route = "wall" ->
                IF data.thickness <= 0 THEN "Thickness must be positive"
                ELSE IF data.height <= 0 THEN "Height must be positive"
                ELSE "none"
           [] req.route = "door" ->
                IF SwingMember(data.swing_direction) = "ValueError"
                THEN "not a valid SwingDirection"
                ELSE IF data.width < MIN_DOOR_WIDTH
                THEN "Door width must be at least"
                ELSE "none"
           [] req.route = "window" ->
                IF data.width < MIN_WINDOW_WIDTH
                THEN "Window width must be at least"
                ELSE "none"
           [] req.route = "room" ->
                IF Len(data.points) < 3
                THEN "Room must have at least 3 points"
                ELSE IF FloatLess(CalculateAreaFromPoints(data.points),
                                  MIN_ROOM_AREA)
                THEN "Room area must be at least"
                ELSE "none"

\* the generator call of a route
EndpointCode(req) ==
    LET data == req.data IN
    CASE req.route = "wall" ->
            CreateWall(data.start_point, data.end_point, data.thickness,
                       data.height)
      [] req.route = "door" ->
            InsertDoor(data.wall_reference, data.position, data.width,
                       data.height, SwingMember(data.swing_direction),
                       "SINGLE", <<>>)
      [] req.route = "window" ->
            InsertWindow(data.wall_reference, data.position, data.width,
                         data.height, data.sill_height, "FIXED", "DOUBLE",
                         <<>>)
      [] req.route = "room" -> CreateRoom(data.points, data.height)

\* a client posts to one of the four drawing routes
CallEndpoint(t) ==
    \E req \in Requests :
        /\ served < MaxRequests
        /\ Enter(t, "endpoint", "h_validate", InstanceId(req.data), <<>>, <<>>)
        /\ request' = req
        /\ served' = served + 1
        /\ UNCHANGED <<connections, comInit, envVars, simVars, pureVars>>

\* variant: the checks are made but the route goes on whatever they say
EndpointValidateIgnored(t) ==
    /\ pc[t] = "h_validate"
    /\ IF RequiredFields(request.route) \subseteq DOMAIN request.data
       THEN /\ Goto(t, "h_generate")
            /\ Log(t, "validated")
       ELSE /\ Raise(t, "ValidationError", <<EndpointFault(request)>>)
            /\ LogText(t, "rejected", <<EndpointFault(request)>>)
    /\ UNCHANGED <<connections, comInit, envVars, auxVars, key, code, localVars,
                   op, pre, preCom>>

\* validate_request_data, the conversions and the route's own checks
EndpointValidate(t) ==
    /\ pc[t] = "h_validate"
    /\ IF EndpointFault(request) = "none"
       THEN /\ Goto(t, "h_generate")
            /\ Log(t, "validated")
       ELSE /\ Raise(t, "ValidationError", <<EndpointFault(request)>>)
            /\ LogText(t, "rejected", <<EndpointFault(request)>>)
    /\ UNCHANGED <<connections, comInit, envVars, auxVars, key, code, localVars,
                   op, pre, preCom>>

\* lisp_code = lisp_generator.<route>(...);
\* result = autocad_interface.execute_lisp(lisp_code, instance_id)
EndpointGenerate(t) ==
    /\ pc[t] = "h_generate"
    /\ code' = [code EXCEPT ![t] = EndpointCode(request)]
    /\ CallInner(t, <<"execute">>, "e_init")
    /\ LogText(t, "generate", EndpointCode(request))
    /\ UNCHANGED <<connections, comInit, envVars, auxVars, key, localVars, op,
                   pre, preCom>>

\* return jsonify({"success": result.success, ...}): status 200
EndpointRespond(t) ==
    /\ pc[t] = "h_respond"
    /\ Return(t, HttpV(200, rv[t].ok))
    /\ UNCHANGED <<connections, comInit, envVars, auxVars, key, code, localVars,
                   histVars>>

\* ------------------------------------------- src/main.py: simulated server
\* the JSON bodies a client may post to a route that reads `fields`: each
\* field left out, falsy, or filled
WallFieldNames == {"instance_id", "start_point", "end_point", "thickness"}
SimBodies(fields) ==
    LET full == {[instance_id |-> i, lisp_code |-> c, start_point |-> sp,
                  end_point |-> <<10, 0>>, thickness |-> th] :
                    i \in {"", "acad-1", "acad-2"}, c \in {"", "(command)"},
                    sp \in {<<>>, <<0>>, <<0, 0>>}, th \in {0, 2}}
    IN  {[f \in S |-> d[f]] : d \in full, S \in SUBSET fields}

\* `not data.get(field)`: the field is left out or holds "", [] or 0
Falsy(data, field) ==
    \/ field \notin DOMAIN data
    \/ CASE field \in {"instance_id", "lisp_code"} -> data[field] = ""
         [] field \in {"start_point", "end_point"} -> data[field] = <<>>
         [] field = "thickness" -> data[field] = 0

Respond(status) == [status |-> status]

\* GET /
SimIndex ==
    /\ request' = [route |-> "index", data |-> <<>>]
    /\ response' = Respond(200)
    /\ UNCHANGED <<registryVars, served, autocad_connections,
                   connected_before, pureVars>>

\* POST /connect_to_autocad
SimConnect ==
    \E data \in SimBodies({"instance_id"}) :
        /\ request' = [route |-> "connect_to_autocad", data |-> data]
        /\ IF Falsy(data, "instance_id")
           THEN /\ response' = Respond(400)
                /\ UNCHANGED <<autocad_connections, connected_before>>
           ELSE /\ autocad_connections' =
                       autocad_connections \cup {data.instance_id}
                /\ connected_before' =
                       connected_before \cup {data.instance_id}
                /\ response' = Respond(200)
        /\ UNCHANGED <<registryVars, served, pureVars>>

\* POST /execute_lisp
SimExecuteLisp ==
    \E data \in SimBodies({"instance_id", "lisp_code"}) :
        /\ request' = [route |-> "execute_lisp", data |-> data]
        /\ response' =
              IF Falsy(data, "instance_id") \/ Falsy(data, "lisp_code")
              THEN Respond(400)
              ELSE IF data.instance_id \notin autocad_connections
              THEN Respond(404)
              ELSE Respond(200)
        /\ UNCHANGED <<registryVars, served, autocad_connections,
                       connected_before, pureVars>>

\* POST /create_wall: the text is built from start_point[0], start_point[1],
\* end_point[0] and end_point[1]; an index that is not there raises
\* IndexError, which the server answers with 500
SimCreateWall ==
    \E data \in SimBodies(WallFieldNames) :
        /\ request' = [route |-> "create_wall", data |-> data]
        /\ response' =
              IF \E f \in WallFieldNames : Falsy(data, f)
              THEN Respond(400)
              ELSE IF data.instance_id \notin autocad_connections
              THEN Respond(404)
              ELSE IF Len(data.start_point) < 2 \/ Len(data.end_point) < 2
              THEN Respond(500)
              ELSE Respond(200)
        /\ UNCHANGED <<registryVars, served, autocad_connections,
                       connected_before, pureVars>>

\* --------------------------------- the utilities and the generator, applied
MaxNameLen == 2       \* length of the short layer names tried
MaxStrLen == 4        \* length of the strings escaped
MaxVerts == 4         \* vertices of the polygons measured

RECURSIVE SeqsUpTo(_, _)
SeqsUpTo(S, n) ==
    IF n = 0 THEN {<<>>}
    ELSE LET shorter == SeqsUpTo(S, n - 1)
         IN  shorter \cup {Append(q, c) : q \in shorter, c \in S}

\* layer names: short ones, ones around the length limit, the tests' names
Names ==
    LET ShortNames == SeqsUpTo({"A", "1", "_", "<", "*"}, MaxNameLen)
        Pad(prefix, n) == prefix \o [i \in 1..(n - Len(prefix)) |-> "A"]
        LongNames ==
            {Pad(q, n) : q \in ShortNames,
                n \in {LayerNameLimit - 1, LayerNameLimit, LayerNameLimit + 1}}
        TestNames ==
            {<<"W", "A", "L", "L", "<", "T", "E", "S", "T", ">">>,
             <<"1", "W", "A", "L", "L", "S">>,
             <<"V", "A", "L", "I", "D", "_", "L", "A", "Y", "E", "R">>}
            \cup {<<InvalidChars[i], "A">> : i \in 1..Len(InvalidChars)}
    IN  ShortNames \cup LongNames \cup TestNames

\* strings over a letter, the quote and the backslash
Strings == SeqsUpTo({"a", "\"", "\\"}, MaxStrLen)

\* vertex lists; the two polygons of the tests among them
Rectangle ==
    <<Point(0, 0, 0), Point(100, 0, 0), Point(100, 80, 0), Point(0, 80, 0)>>
Triangle == <<Point(0, 0, 0), Point(10, 0, 0), Point(5, 8, 0)>>
Polygons ==
    SeqsUpTo({Point(0, 0, 0), Point(2, 0, 0), Point(2, 1, 0), Point(-1, 1, 0),
              Point(1, 3, 0)}, MaxVerts)
    \cup {Rectangle, Triangle}

\* bodies posted to /api/utils/calculate_area
AreaBodies ==
    {[points |-> ps] : ps \in SeqsUpTo({Point(0, 0, 0), Point(2, 1, 0)}, 3)}
    \cup {[points |-> Rectangle], [height |-> 96]}

\* arguments of the generator function f; NONE is a value that is no member
\* of an enumeration
NotAMember == "NONE"
Generators ==
    {"create_wall", "insert_door", "insert_window", "create_room",
     "insert_furniture", "insert_door_simple", "insert_window_simple",
     "create_layer", "add_text_note", "set_current_layer"}
GeneratorArgs(f) ==
    LET Positions == {Point(50, 0, 0), Point(30, 20, 5)}
        RefIds == {<<>>, <<"D", "1">>, <<"D", "\"">>, <<"\\">>}
        Texts == SeqsUpTo({"a", "\"", "\\"}, MaxNameLen)
    IN  CASE f = "create_wall" ->
                [start_point : Positions, end_point : Positions,
                 thickness : {6}, height : {96}]
          [] f \in {"insert_door", "insert_door_simple"} ->
                [wall_reference : {"wall_1"}, position : Positions,
                 width : {36}, height : {84},
                 swing_direction : SwingDirection \cup {NotAMember},
                 door_type : DoorType \cup {NotAMember}, ref_id : RefIds]
          [] f \in {"insert_window", "insert_window_simple"} ->
                [wall_reference : {"wall_1"}, position : Positions,
                 width : {48}, height : {36}, sill_height : {30},
                 window_type : WindowType \cup {NotAMember},
                 glass_type : {"DOUBLE"}, ref_id : RefIds]
          [] f = "create_room" ->
                [points : {Rectangle, Triangle}, height : {96}]
          [] f = "insert_furniture" ->
                [insertion_point : Positions,
                 furniture_type : FurnitureType \cup {NotAMember},
                 rotation : {0, 90}, scale : {1}]
          [] f = "create_layer" ->
                [name : Texts, color : {7}, line_type : Texts,
                 line_weight : {1}]
          [] f = "add_text_note" ->
                [insertion_point : Positions, text_string : Texts,
                 height : {12}, rotation : {0}]
          [] f = "set_current_layer" ->
                [layer_name : Texts, instance_id : {1}]

\* an exception left the function: no text is returned
Raised(exc) == <<"raise", exc>>

Evaluate(f, result) ==
    /\ fn = f
    /\ out = <<>>
    /\ out' = result
    /\ UNCHANGED <<registryVars, request, served, simVars, fn, arg>>

ApplySanitize == Evaluate("sanitize_layer_name", <<SanitizeLayerName(arg)>>)
\* the result is sanitised once more
ApplySanitizeAgain ==
    /\ fn = "sanitize_layer_name"
    /\ Len(out) = 1
    /\ out' = Append(out, SanitizeLayerName(out[1]))
    /\ UNCHANGED <<registryVars, request, served, simVars, fn, arg>>

ApplyFormatLispString ==
    Evaluate("format_lisp_string", <<FormatLispString(arg)>>)

\* out keeps the value returned for arg, the vertex list measured last and
\* every value returned so far
ApplyArea ==
    Evaluate("calculate_area_from_points",
             [first |-> CalculateAreaFromPoints(arg), poly |-> arg,
              areas |-> {CalculateAreaFromPoints(arg)}])
Rotated(poly) == IF poly = <<>> THEN <<>> ELSE Append(Tail(poly), Head(poly))
Reversed(poly) == [i \in 1..Len(poly) |-> poly[Len(poly) + 1 - i]]
\* the same polygon is measured again from its next vertex, or backwards
MeasureAgain ==
    /\ fn = "calculate_area_from_points"
    /\ out # <<>>
    /\ \E poly \in {Rotated(out.poly), Reversed(out.poly)} :
          out' = [out EXCEPT !.poly = poly,
                             !.areas = @ \cup {CalculateAreaFromPoints(poly)}]
    /\ UNCHANGED <<registryVars, request, served, simVars, fn, arg>>

\* POST /api/utils/calculate_area
ApplyAreaEndpoint ==
    Evaluate("calculate_area",
        IF "points" \notin DOMAIN arg \/ Len(arg.points) < 3
        THEN [status |-> 400, success |-> FALSE, area |-> Whole(0)]
        ELSE [status |-> 200, success |-> TRUE,
              area |-> CalculateAreaFromPoints(arg.points)])

\* the generator function f called with the arguments a; door_type.value and
\* window_type.value raise AttributeError on a value that is no member of
\* the enumeration
Generated(f, a) ==
    CASE f = "create_wall" ->
            CreateWall(a.start_point, a.end_point, a.thickness, a.height)
      [] f = "insert_door" ->
            IF a.door_type \notin DoorType THEN Raised("AttributeError")
            ELSE InsertDoor(a.wall_reference, a.position, a.width, a.height,
                            a.swing_direction, a.door_type, a.ref_id)
      [] f = "insert_window" ->
            IF a.window_type \notin WindowType THEN Raised("AttributeError")
            ELSE InsertWindow(a.wall_reference, a.position, a.width, a.height,
                              a.sill_height, a.window_type, a.glass_type,
                              a.ref_id)
      [] f = "create_room" -> CreateRoom(a.points, a.height)
      [] f = "insert_furniture" ->
            InsertFurniture(a.insertion_point, a.furniture_type, a.rotation,
                            a.scale)
      [] f = "insert_door_simple" ->
            InsertDoorSimple(a.position, a.width, a.height, a.door_type,
                             a.ref_id)
      [] f = "insert_window_simple" ->
            InsertWindowSimple(a.position, a.width, a.height, a.sill_height,
                               a.window_type, a.ref_id)
      [] f = "create_layer" ->
            CreateLayer(a.name, a.color, a.line_type, a.line_weight)
      [] f = "add_text_note" ->
            AddTextNote(a.insertion_point, a.text_string, a.height,
                        a.rotation)
      [] f = "set_current_layer" ->
            SetCurrentLayer(a.layer_name, a.instance_id)
Generate == \E f \in Generators : Evaluate(f, <<Generated(f, arg)>>)

\* ------------------------------------------------------------- environment
\* the drawing application exits or crashes; handles to it go dead
Crash ==
    /\ running # None
    /\ running' = None
    /\ docOpen' = FALSE
    /\ UNCHANGED <<connections, comInit, win32, auxVars, launched, supportLisp,
                   frameVars, localVars, histVars>>

\* ------------------------------------------------------------ specification
ThreadNext(t) ==
    \/ CallConnect(t) \/ CallGet(t) \/ CallExecute(t)
    \/ CallSave(t) \/ CallLoad(t) \/ SaveAs(t) \/ LoadRead(t) \/ LoadReturn(t)
    \/ CallDisconnect(t) \/ CallDisconnectAll(t) \/ CallList(t)
    \/ InitializeCom(t)
    \/ ConnectAttach(t) \/ ConnectLaunch(t) \/ ConnectSupportPath(t)
    \/ ConnectDocument(t) \/ ConnectRegister(t)
    \/ GetLookup(t) \/ GetProbe(t) \/ GetEvict(t)
    \/ ExecuteResolve(t) \/ ExecuteResolved(t) \/ ExecuteValidate(t)
    \/ ExecuteSend(t)
    \/ DisconnectCheck(t) \/ DisconnectFetch(t) \/ DisconnectDelete(t)
    \/ DisconnectRelease(t)
    \/ DisconnectAllLoop(t) \/ DisconnectAllCounted(t)
    \/ ListNext(t) \/ ListProbe(t) \/ DocInfoGot(t) \/ ListAppend(t)

\* one caller at a time
Next == Crash \/ ThreadNext("t1")

Spec == Init /\ [][Next]_vars

\* the drawing routes of the HTTP server, one request at a time
ExecuteSteps(t) ==
    \/ InitializeCom(t)
    \/ ConnectAttach(t) \/ ConnectLaunch(t) \/ ConnectSupportPath(t)
    \/ ConnectDocument(t) \/ ConnectRegister(t)
    \/ GetLookup(t) \/ GetProbe(t) \/ GetEvict(t)
    \/ ExecuteResolve(t) \/ ExecuteResolved(t) \/ ExecuteValidate(t)
    \/ ExecuteSend(t)
ApiNext(t) ==
    \/ CallEndpoint(t) \/ EndpointValidate(t) \/ EndpointGenerate(t)
    \/ EndpointRespond(t)
    \/ ExecuteSteps(t)
NextApi == Crash \/ ApiNext("t1")
SpecApi == Init /\ [][NextApi]_vars

\* the simulated server on its own: the interface is not used
InitQuiet ==
    /\ connections = <<>>
    /\ comInit = FALSE
    /\ win32 = FALSE
    /\ launched = 1
    /\ running = None
    /\ supportLisp = 0
    /\ docOpen = FALSE
    /\ InitThreads
InitSim == InitQuiet /\ InitAux
NextSim == SimIndex \/ SimConnect \/ SimExecuteLisp \/ SimCreateWall
SpecSim == InitSim /\ [][NextSim]_vars

\* two callers, each making one call of connect, get, execute, disconnect or
\* disconnect_all; their steps interleave in any order (the interface takes no
\* lock)
ConcCall(t) ==
    /\ pc[t] = "idle"
    /\ \/ CallConnect(t) \/ CallGet(t)
       \/ CallExecute(t) /\ code'[t] = <<"c1">>
       \/ CallDisconnect(t) \/ CallDisconnectAll(t)
ConcStep(t) ==
    \/ InitializeCom(t)
    \/ ConnectAttach(t) \/ ConnectLaunch(t) \/ ConnectSupportPath(t)
    \/ ConnectDocument(t) \/ ConnectRegister(t)
    \/ GetLookup(t) \/ GetProbe(t) \/ GetEvict(t)
    \/ ExecuteResolve(t) \/ ExecuteResolved(t) \/ ExecuteValidate(t)
    \/ ExecuteSend(t)
    \/ DisconnectCheck(t) \/ DisconnectFetch(t) \/ DisconnectDelete(t)
    \/ DisconnectRelease(t)
    \/ DisconnectAllLoop(t) \/ DisconnectAllCounted(t)
NextConc == Crash \/ \E t \in Threads : ConcCall(t) \/ ConcStep(t)
\* a Windows host; every registered session holds a handle to the first
\* process, which runs or has died
InitConc ==
    /\ connections \in {f \in SeedRegistries :
                            \A k \in DOMAIN f : f[k] = Session(k, 1, TRUE, TRUE)}
    /\ comInit \in (IF DOMAIN connections = {} THEN BOOLEAN ELSE {TRUE})
    /\ win32 = TRUE
    /\ launched = 1
    /\ running \in {None, 1}
    /\ supportLisp = 0
    /\ docOpen = (running # None)
    /\ InitThreads
    /\ InitAux
SpecConc == InitConc /\ [][NextConc]_vars

\* the utilities and the generator on their own: a function and its argument
\* are drawn, the function is applied
InitPure ==
    /\ InitQuiet
    /\ InitHttp
    /\ out = <<>>
    /\ \/ fn = "sanitize_layer_name" /\ arg \in Names
       \/ fn = "format_lisp_string" /\ arg \in Strings
       \/ fn = "calculate_area_from_points" /\ arg \in Polygons
       \/ fn = "calculate_area" /\ arg \in AreaBodies
       \/ fn \in Generators /\ arg \in GeneratorArgs(fn)
NextPure ==
    \/ ApplySanitize \/ ApplySanitizeAgain \/ ApplyFormatLispString
    \/ ApplyArea \/ MeasureAgain \/ ApplyAreaEndpoint
    \/ Generate
SpecPure == InitPure /\ [][NextPure]_vars


\* ================================================================== claims
Done(t, f) == pc[t] = "done" /\ op[t] = f
EvIdx(t, name) == {i \in 1..Len(trace[t]) : trace[t][i].ev = name}
SendIdx(t) == EvIdx(t, "send") \cup EvIdx(t, "send_fault")
LastEv(t) == Last(trace[t])
IsSuffix(a, b) ==
    /\ Len(a) <= Len(b)
    /\ SubSeq(b, Len(b) - Len(a) + 1, Len(b)) = a
FaultEvents ==
    {"init_fault", "launch_fault", "support_fault", "doc_fault", "ctor_fault",
     "invalid", "no_document", "send_fault", "evict_fault"}

\* C1: execute never raises to its caller: whatever the registry holds and
\* whichever step faults (COM initialisation, get, connect, the liveness
\* probe, the send), the call ends with a result, and when a step faulted the
\* result has success = false and an error message.
C1_ExecuteNeverRaises ==
    \A t \in Threads :
        Done(t, "execute") =>
            /\ ret[t].kind = "result"
            /\ LastEv(t).ev \in FaultEvents =>
                  /\ ~ret[t].ok
                  /\ Len(ret[t].msg) >= 2
                  /\ ret[t].msg[1] = "Failed to execute LISP code: "

C1_Witness ==
    \E t \in Threads :
        /\ Done(t, "execute")
        /\ LastEv(t).ev = "send_fault"
        /\ ret[t].kind = "result"
        /\ ~ret[t].ok

\* C2: an execute that finds no session under its key (none registered, or
\* the one registered just evicted by get) calls connect before any send; if
\* that connect registers a session the text is sent and the key is
\* registered at the end, and if it fails the result has success = false and
\* nothing was sent.
C2_ExecuteConnectsWhenAbsent ==
    \A t \in Threads :
        /\ op[t] = "execute" /\ (Did(t, "not_found") \/ Did(t, "evict"))
             => \A i \in SendIdx(t) : \E j \in EvIdx(t, "connect") : j < i
        /\ Done(t, "execute") /\ (Did(t, "not_found") \/ Did(t, "evict"))
             => /\ Did(t, "connect")
                /\ Did(t, "registered") =>
                      SendIdx(t) # {} /\ Registered(key[t])
                /\ ~Did(t, "registered") =>
                      ~ret[t].ok /\ SendIdx(t) = {}

C2_Witness ==
    \E t \in Threads :
        /\ Done(t, "execute")
        /\ Did(t, "evict")
        /\ Did(t, "connect")
        /\ ~ret[t].ok
        /\ SendIdx(t) = {}

\* C3: whenever attach or launch succeeded and a document was obtained,
\* connect returns a session with connected = true and the registry maps the
\* key to exactly that session.
C3_ConnectRegisters ==
    \A t \in Threads :
        Done(t, "connect") /\ Did(t, "doc") =>
            /\ ret[t].kind = "session"
            /\ ret[t].sess.connected
            /\ Registered(key[t])
            /\ connections[key[t]] = ret[t].sess

\* C4: connect ends with a session or with AutoCADConnectionError and no
\* other error kind, whichever step faulted, and the message of the error
\* ends with the text of the fault that caused it.
C4_ConnectRaisesOnlyConnectionError ==
    \A t \in Threads :
        Done(t, "connect") =>
            \/ ret[t].kind = "session"
            \/ /\ ret[t].kind = "raise"
               /\ ret[t].exc = "AutoCADConnectionError"
               /\ LastEv(t).text # <<>>
               /\ IsSuffix(LastEv(t).text, ret[t].msg)
               /\ ret[t].msg[1] = "Failed to connect to AutoCAD: "

C4_Witness ==
    \E t \in Threads :
        /\ Done(t, "connect")
        /\ LastEv(t).ev = "ctor_fault"
        /\ ret[t].kind = "raise"
        /\ ret[t].exc = "AutoCADConnectionError"

\* C5: get answers absent for a key that is not registered; for a registered
\* key whose probe succeeds it answers that session and leaves the registry
\* as it was; when the probe fails it removes the key and answers absent.
\* It never adds a session.
C5_GetContract ==
    \A t \in Threads :
        Done(t, "get") =>
            /\ key[t] \notin DOMAIN pre[t] =>
                  ret[t] = AbsentV /\ connections = pre[t]
            /\ key[t] \in DOMAIN pre[t] /\ Did(t, "get_alive") =>
                  ret[t] = SessionV(pre[t][key[t]]) /\ connections = pre[t]
            /\ key[t] \in DOMAIN pre[t] /\ Did(t, "get_dead") =>
                  ret[t] = AbsentV /\ connections = Remove(pre[t], key[t])
            /\ DOMAIN connections \subseteq DOMAIN pre[t]

C5_Witness ==
    \E t \in Threads :
        /\ Done(t, "get")
        /\ key[t] \in DOMAIN pre[t]
        /\ Did(t, "get_dead")
        /\ ret[t] = AbsentV
        /\ key[t] \notin DOMAIN connections
        /\ DOMAIN connections # {}


\* C6: in execute the text goes to the document only right after a liveness
\* probe of the resolved session has succeeded; when that probe fails nothing
\* is sent and the call ends in the connection failure.
C6_SendOnlyAfterValidProbe ==
    \A t \in Threads :
        op[t] = "execute" =>
            /\ \A i \in SendIdx(t) : i > 1 /\ trace[t][i - 1].ev = "valid"
            /\ Done(t, "execute") /\ Did(t, "invalid") =>
                  /\ SendIdx(t) = {}
                  /\ ~ret[t].ok
                  /\ ret[t].msg = ExecuteWrap(
                       <<"Failed to establish or validate AutoCAD connection">>)

C6_Witness ==
    \E t \in Threads :
        /\ Done(t, "execute")
        /\ Did(t, "get_alive")
        /\ Did(t, "invalid")
        /\ SendIdx(t) = {}

\* C7: disconnect answers true exactly when the key was registered at the
\* call, and then the key is gone and every other key is as it was; for a key
\* that is not registered it answers false, does not raise, and leaves the
\* registry as it was.
C7_DisconnectContract ==
    \A t \in Threads :
        Done(t, "disconnect") =>
            /\ ret[t].kind = "bool"
            /\ ret[t].ok <=> key[t] \in DOMAIN pre[t]
            /\ ret[t].ok => connections = Remove(pre[t], key[t])
            /\ ~ret[t].ok => connections = pre[t]

C7_Witness ==
    \E t \in Threads :
        /\ Done(t, "disconnect")
        /\ ret[t] = BoolV(TRUE)
        /\ key[t] \in DOMAIN pre[t]
        /\ key[t] \notin DOMAIN connections
        /\ DOMAIN connections # {}

\* C8 as stated: a disconnect that removes the last session has cleared the
\* COM-initialised flag when it returns; a disconnect that leaves other
\* sessions registered does not clear it.
C8_LastDisconnectClearsFlag ==
    \A t \in Threads :
        Done(t, "disconnect") /\ ret[t].ok =>
            /\ DOMAIN connections = {} => ~comInit
            /\ DOMAIN connections # {} => comInit = preCom[t]

\* C8 as amended: a disconnect that removes the last session runs the COM
\* release before it returns, and the flag is cleared unless the release call
\* itself faulted, in which case the flag stays as it was; a disconnect that
\* leaves other sessions registered does not touch the flag.
C8_LastDisconnectReleases ==
    \A t \in Threads :
        Done(t, "disconnect") /\ ret[t].ok =>
            /\ DOMAIN connections = {} =>
                  /\ LastEv(t).ev \in {"released", "release_fault", "release_noop"}
                  /\ LastEv(t).ev # "release_fault" => ~comInit
                  /\ LastEv(t).ev = "release_fault" =>
                        win32 /\ comInit /\ preCom[t]
            /\ DOMAIN connections # {} =>
                  LastEv(t).ev = "keep" /\ comInit = preCom[t]

C8_Witness ==
    \E t \in Threads :
        /\ Done(t, "disconnect")
        /\ ret[t].ok
        /\ DOMAIN connections = {}
        /\ preCom[t]
        /\ ~comInit

\* C9: disconnect_all answers the number of sessions that were registered
\* when it was called, and the registry is empty when it returns.
C9_DisconnectAllCount ==
    \A t \in Threads :
        Done(t, "disconnect_all") =>
            /\ ret[t].kind = "count"
            /\ ret[t].n = Cardinality(DOMAIN pre[t])
            /\ DOMAIN connections = {}

C9_Witness ==
    \E t \in Threads :
        /\ Done(t, "disconnect_all")
        /\ ret[t].kind = "count"
        /\ ret[t].n >= 2
        /\ DOMAIN connections = {}

\* C10: list_connections returns without raising, with one record per
\* registered key; the record of a session whose liveness probe failed has
\* connected = false and document_name "Unknown".
C10_ListOneRecordPerKey ==
    \A t \in Threads :
        Done(t, "list") =>
            /\ ret[t].kind = "list"
            /\ Len(ret[t].recs) = Cardinality(DOMAIN pre[t])
            /\ {ret[t].recs[i].instance_id : i \in 1..Len(ret[t].recs)}
                  = DOMAIN pre[t]
            /\ \A i \in 1..Len(ret[t].recs) :
                  ~ret[t].recs[i].connected =>
                      ret[t].recs[i].document_name = "Unknown"

\* C11: every LispExecutionResult that execute_lisp, load_lisp_file or
\* save_current_drawing hands back with success = True has an empty
\* error_message.
ResultOps == {"execute", "load", "save"}
C11_SuccessHasNoError ==
    \A t \in Threads :
        (pc[t] = "done" /\ op[t] \in ResultOps) =>
            /\ ret[t].kind = "result"
            /\ ret[t].ok => ret[t].msg = <<>>
C11_Witness ==
    \E t \in Threads :
        /\ Done(t, "save")
        /\ ret[t].kind = "result"
        /\ ret[t].ok
        /\ Did(t, "saved")
C11_WitnessLoad ==
    \E t \in Threads :
        /\ Done(t, "load")
        /\ ret[t].ok
        /\ Did(t, "read") /\ Did(t, "send")

\* C12: a request to the wall, door, window or room route that fails
\* validation (a required field missing, wall thickness or height not
\* positive, door or window width below its minimum, fewer than 3 room
\* points, room area below the minimum) is answered 400 before any code is
\* generated: execute is never entered for it, and the registry and the COM
\* flag stay as they were when the request came in.
C12_FailsValidation(req) ==
    LET d == req.data IN
    IF \E f \in RequiredFields(req.route) : f \notin DOMAIN d THEN TRUE
    ELSE \/ req.route = "wall" /\ (d.thickness <= 0 \/ d.height <= 0)
         \/ req.route = "door" /\ d.width < MIN_DOOR_WIDTH
         \/ req.route = "window" /\ d.width < MIN_WINDOW_WIDTH
         \/ req.route = "room" /\ Len(d.points) < 3
         \/ /\ req.route = "room"
            /\ CalculateAreaFromPoints(d.points).twice < 2 * MIN_ROOM_AREA
C12_ValidationBeforeExecute ==
    \A t \in Threads :
        (op[t] = "endpoint" /\ C12_FailsValidation(request)) =>
            /\ \A i \in 1..Len(stack[t]) : stack[t][i] = "endpoint"
            /\ \A i \in 1..Len(trace[t]) : trace[t][i].ev = "rejected"
            /\ code[t] = <<>>
            /\ connections = pre[t]
            /\ comInit = preCom[t]
            /\ pc[t] = "done" => ret[t] = HttpV(400, FALSE)
C12_Witness ==
    \E t \in Threads :
        /\ Done(t, "endpoint")
        /\ request.route = "room"
        /\ "points" \in DOMAIN request.data
        /\ Len(request.data.points) = 3
        /\ C12_FailsValidation(request)
        /\ ret[t].n = 400
        /\ DOMAIN connections # {}
C12_WitnessAccepted ==
    \E t \in Threads :
        /\ Done(t, "endpoint")
        /\ ~C12_FailsValidation(request)
        /\ ret[t] = HttpV(200, TRUE)
        /\ Did(t, "send")

\* C13: in the simulated server, an execute_lisp or create_wall request whose
\* required fields are all filled in is answered 200 when a connect_to_autocad
\* for its instance_id was answered earlier, and 404 when none was.
C13_Filled(req) ==
    /\ req.route \in {"execute_lisp", "create_wall"}
    /\ \A f \in (IF req.route = "execute_lisp"
                 THEN {"instance_id", "lisp_code"}
                 ELSE WallFieldNames) : ~Falsy(req.data, f)
C13_ConnectGates ==
    C13_Filled(request) =>
        response.status = (IF request.data.instance_id \in connected_before
                           THEN 200 ELSE 404)
\* the rest of C13: the store holds exactly the ids connected so far, only
\* connect_to_autocad changes it, and it never loses an id
C13_StoreIsHistory == autocad_connections = connected_before
C13_StoreOnlyGrows ==
    [][/\ autocad_connections \subseteq autocad_connections'
       /\ request'.route \in {"execute_lisp", "create_wall"}
            => autocad_connections' = autocad_connections]_vars
\* with points of two coordinates the gate is as C13 says
C13_GatesWellFormed ==
    (/\ C13_Filled(request)
     /\ request.route = "create_wall" => Len(request.data.start_point) = 2) =>
        response.status = (IF request.data.instance_id \in connected_before
                           THEN 200 ELSE 404)

\* C14: sanitising a layer name twice gives what sanitising it once gives,
\* for every name: the empty one, one that starts with a digit, one longer
\* than 255 characters.
C14_SanitizeIdempotent ==
    (fn = "sanitize_layer_name" /\ Len(out) = 2) => out[2] = out[1]
C14_Witness ==
    /\ fn = "sanitize_layer_name"
    /\ Len(out) = 2
    /\ Len(arg) > LayerNameLimit
    /\ arg[1] \in Digits
    /\ out[1] # arg
C14_WitnessEmpty ==
    fn = "sanitize_layer_name" /\ Len(out) = 2 /\ arg = <<>>

\* C15: taking the surrounding quotes off format_lisp_string(s) and undoing
\* the escapes from left to right (backslash-quote to quote, double backslash
\* to backslash) gives s back, for every s over an alphabet with the quote
\* and the backslash; so no other string has the same escaped form.
RECURSIVE C15_Unescape(_)
C15_Unescape(text) ==
    IF text = <<>> THEN <<>>
    ELSE IF Head(text) = "\\" /\ Len(text) >= 2
    THEN <<text[2]>> \o C15_Unescape(SubSeq(text, 3, Len(text)))
    ELSE <<Head(text)>> \o C15_Unescape(Tail(text))
C15_StripQuotes(text) == SubSeq(text, 2, Len(text) - 1)
C15_EscapeRoundTrips ==
    (fn = "format_lisp_string" /\ out # <<>>) =>
        /\ Len(out[1]) >= 2
        /\ out[1][1] = "\"" /\ out[1][Len(out[1])] = "\""
        /\ C15_Unescape(C15_StripQuotes(out[1])) = arg
        /\ \A other \in Strings : FormatLispString(other) = out[1] => other = arg
C15_Witness ==
    /\ fn = "format_lisp_string"
    /\ out # <<>>
    /\ \E i, j \in 1..Len(arg) : arg[i] = "\"" /\ arg[j] = "\\" /\ i < j
    /\ Len(out[1]) > Len(arg) + 2

\* C16: sanitize(s) is s with every disallowed character (< > : " / \ | ? *)
\* turned into an underscore, then an underscore put in front if the first
\* character is a digit, then cut to 255 characters, and DEFAULT_LAYER for
\* the empty s; so it is never empty, never longer than 255, has no
\* disallowed character, does not start with a digit, and a name that is
\* already like that comes back unchanged.
C16_Disallowed == {"<", ">", ":", "\"", "/", "\\", "|", "?", "*"}
C16_Valid(name) ==
    /\ name # <<>>
    /\ Len(name) <= 255
    /\ \A i \in 1..Len(name) : name[i] \notin C16_Disallowed
    /\ name[1] \notin Digits
C16_Reference(name) ==
    LET mapped == [i \in 1..Len(name) |->
                     IF name[i] \in C16_Disallowed THEN "_" ELSE name[i]]
        shifted == [i \in 1..(Len(name) + 1) |->
                      IF i = 1 THEN "_" ELSE mapped[i - 1]]
        whole == IF name[1] \in Digits THEN shifted ELSE mapped
    IN  IF name = <<>> THEN DefaultLayer
        ELSE [i \in 1..Min(255, Len(whole)) |-> whole[i]]
C16_SanitizeIsReference ==
    (fn = "sanitize_layer_name" /\ out # <<>>) =>
        /\ out[1] = C16_Reference(arg)
        /\ C16_Valid(out[1])
        /\ C16_Valid(arg) => out[1] = arg
        /\ arg = <<"W", "A", "L", "L", "<", "T", "E", "S", "T", ">">>
             => out[1] = <<"W", "A", "L", "L", "_", "T", "E", "S", "T", "_">>
        /\ arg = <<"1", "W", "A", "L", "L", "S">>
             => out[1] = <<"_", "1", "W", "A", "L", "L", "S">>
C16_Witness ==
    /\ fn = "sanitize_layer_name"
    /\ out # <<>>
    /\ Len(arg) = LayerNameLimit
    /\ arg[1] \in Digits
    /\ arg[2] \in C16_Disallowed
    /\ Len(out[1]) = LayerNameLimit
C16_WitnessValid ==
    fn = "sanitize_layer_name" /\ out # <<>> /\ C16_Valid(arg) /\ Len(arg) > 2

\* C17: for every vertex list of at least 3 points with bounded integer
\* coordinates, calculate_area_from_points returns the same value for every
\* cyclic rotation of the list and for the reversed list.
C17_AreaIgnoresStartAndDirection ==
    (fn = "calculate_area_from_points" /\ out # <<>> /\ Len(arg) >= 3) =>
        out.areas = {out.first}
C17_Witness ==
    /\ fn = "calculate_area_from_points"
    /\ out # <<>>
    /\ Len(arg) = 4
    /\ out.first.twice > 0
    /\ out.poly = Reversed(Rotated(arg))
    /\ out.poly \notin {arg, Rotated(arg), Reversed(arg)}

\* C18: calculate_area_from_points returns half the absolute value of the
\* sum of x[i]*y[i+1] - x[i+1]*y[i] over consecutive vertices, the last
\* paired with the first, and 0 for fewer than 3 points; the rectangle
\* (0,0),(100,0),(100,80),(0,80) gives 8000, the triangle (0,0),(10,0),(5,8)
\* gives 40; the area route answers 400 to fewer than 3 points.
C18_Cross(points, i) ==
    LET j == (i % Len(points)) + 1
    IN  points[i].x * points[j].y - points[j].x * points[i].y
RECURSIVE C18_ShoelaceSum(_, _)
C18_ShoelaceSum(points, k) ==
    IF k = 0 THEN 0 ELSE C18_ShoelaceSum(points, k - 1) + C18_Cross(points, k)
C18_AreaIsHalfShoelace ==
    /\ (fn = "calculate_area_from_points" /\ out # <<>>) =>
          /\ Len(arg) < 3 => out.first.twice = 0
          /\ Len(arg) >= 3 =>
                out.first.twice = Abs(C18_ShoelaceSum(arg, Len(arg)))
          /\ arg = Rectangle => out.first.twice = 2 * 8000
          /\ arg = Triangle => out.first.twice = 2 * 40
    /\ (fn = "calculate_area" /\ out # <<>>) =>
          /\ ("points" \in DOMAIN arg /\ Len(arg.points) < 3) =>
                out.status = 400
          /\ ("points" \in DOMAIN arg /\ Len(arg.points) >= 3) =>
                /\ out.status = 200
                /\ out.area.twice =
                      Abs(C18_ShoelaceSum(arg.points, Len(arg.points)))
C18_Witness ==
    /\ fn = "calculate_area_from_points"
    /\ out # <<>>
    /\ arg = Triangle
    /\ out.first = Whole(40)
C18_WitnessRejected ==
    /\ fn = "calculate_area"
    /\ out # <<>>
    /\ "points" \in DOMAIN arg
    /\ Len(arg.points) = 2
    /\ out.status = 400

\* C19: the enumerated kinds go through total tables with a fallback and no
\* member makes generation fail: insert_door_simple picks one of
\* c:create-door-single/-double/-sliding (POCKET gets single),
\* insert_window_simple one of c:create-window-fixed/-casement/-sliding
\* (DOUBLE_HUNG and AWNING get fixed), insert_furniture a block name
\* (GENERIC_FURNITURE for a value outside the table), insert_door an angle
\* of 0, 90, 180 or 270 (90 for a value outside the table).
C19_Has(text, token) == \E i \in 1..Len(text) : text[i] = token
C19_Blocks ==
    {"CHAIR_BLOCK", "TABLE_BLOCK", "BED_BLOCK", "SOFA_BLOCK", "DESK_BLOCK"}
C19_EnumMapsAreTotal ==
    /\ (fn = "insert_door_simple" /\ out # <<>>) =>
          /\ out[1][2] \in {"c:create-door-single", "c:create-door-double",
                            "c:create-door-sliding"}
          /\ arg.door_type \in {"SINGLE", "POCKET", NotAMember}
                => out[1][2] = "c:create-door-single"
          /\ arg.door_type = "DOUBLE" => out[1][2] = "c:create-door-double"
          /\ arg.door_type = "SLIDING" => out[1][2] = "c:create-door-sliding"
    /\ (fn = "insert_window_simple" /\ out # <<>>) =>
          /\ out[1][2] \in {"c:create-window-fixed", "c:create-window-casement",
                            "c:create-window-sliding"}
          /\ arg.window_type \in {"FIXED", "DOUBLE_HUNG", "AWNING", NotAMember}
                => out[1][2] = "c:create-window-fixed"
          /\ arg.window_type = "CASEMENT"
                => out[1][2] = "c:create-window-casement"
          /\ arg.window_type = "SLIDING"
                => out[1][2] = "c:create-window-sliding"
    /\ (fn = "insert_furniture" /\ out # <<>>) =>
          /\ arg.furniture_type \in FurnitureType
                => /\ \E b \in C19_Blocks : C19_Has(out[1], b)
                   /\ ~C19_Has(out[1], "GENERIC_FURNITURE")
          /\ arg.furniture_type \notin FurnitureType
                => C19_Has(out[1], "GENERIC_FURNITURE")
    /\ (fn = "insert_door" /\ out # <<>>) =>
          /\ arg.door_type \in DoorType => out[1][1] # "raise"
          /\ out[1][1] # "raise" =>
                /\ out[1][8] \in {"0", "90", "180", "270"}
                /\ arg.swing_direction \notin SwingDirection
                      => out[1][8] = "90"
    /\ (fn = "insert_window" /\ out # <<>>) =>
          (arg.window_type \in WindowType => out[1][1] # "raise")
C19_Witness ==
    /\ fn = "insert_door_simple"
    /\ out # <<>>
    /\ arg.door_type = "POCKET"
    /\ out[1][2] = "c:create-door-single"
C19_WitnessSwing ==
    /\ fn = "insert_door"
    /\ out # <<>>
    /\ arg.swing_direction = "RIGHT_OUT"
    /\ out[1][8] = "270"

\* C20: every generator function that takes a point writes it into the text
\* as a parenthesised triple of its three coordinates, "(x y z)": create_wall,
\* create_room and insert_furniture, and insert_door and insert_window too.
C20_HasTriple(text, p) ==
    \E i \in 1..(Len(text) - 4) :
        /\ text[i] = "("
        /\ <<text[i + 1], text[i + 2], text[i + 3]>> = Coords(p)
        /\ text[i + 4] = ")"
C20_Points(f, a) ==
    CASE f = "create_wall" -> {a.start_point, a.end_point}
      [] f = "create_room" -> {a.points[i] : i \in 1..Len(a.points)}
      [] f = "insert_furniture" -> {a.insertion_point}
      [] OTHER -> {a.position}
C20_Formatted == {"create_wall", "create_room", "insert_furniture"}
C20_PointsAsTriples ==
    (/\ fn \in C20_Formatted \cup {"insert_door", "insert_window"}
     /\ out # <<>>
     /\ out[1][1] # "raise") =>
        \A p \in C20_Points(fn, arg) : C20_HasTriple(out[1], p)
\* where the text is built with format_lisp_point or format_lisp_point_list
\* the triple is there
C20_TriplesWhereFormatted ==
    (fn \in C20_Formatted /\ out # <<>>) =>
        \A p \in C20_Points(fn, arg) : C20_HasTriple(out[1], p)

\* ---------------------------------------------------------------- C21
\* the reader of the generated text: a quote opens a literal, inside it a
\* backslash takes the next character whatever it is, a quote closes it;
\* the result tells whether the text ends outside a literal and lists the
\* contents of the literals read
RECURSIVE C21_Read(_, _, _, _)
C21_Read(text, inside, cur, acc) ==
    IF text = <<>> THEN [closed |-> ~inside, literals |-> acc]
    ELSE IF ~inside
    THEN C21_Read(Tail(text), Head(text) = "\"", <<>>, acc)
    ELSE IF Head(text) = "\\" /\ Len(text) >= 2
    THEN C21_Read(Tail(Tail(text)), TRUE, Append(cur, text[2]), acc)
    ELSE IF Head(text) = "\""
    THEN C21_Read(Tail(text), FALSE, <<>>, Append(acc, cur))
    ELSE C21_Read(Tail(text), TRUE, Append(cur, Head(text)), acc)
\* the caller's strings that the function f puts into its text as literals
C21_Embedded(f, a) ==
    CASE f \in {"insert_door", "insert_window", "insert_door_simple",
                "insert_window_simple"} ->
            IF a.ref_id = <<>> THEN {} ELSE {a.ref_id}
      [] f = "create_layer" -> {SanitizeLayerName(a.name), a.line_type}
      [] f = "add_text_note" -> {a.text_string}
      [] f = "set_current_layer" -> {a.layer_name}
      [] OTHER -> {}
C21_ReadsBack(f, a, text) ==
    LET read == C21_Read(text, FALSE, <<>>, <<>>) IN
    /\ read.closed
    /\ \A s \in C21_Embedded(f, a) :
          \E i \in DOMAIN read.literals : read.literals[i] = s
\* C21: every caller-supplied string embedded in a generated text is escaped:
\* whatever quotes and backslashes the input holds, the text's string literals
\* are balanced and the input is read back whole as one literal; this holds
\* for the reference ids of insert_door and insert_window and for the layer
\* name of set_current_layer as well.
C21_EveryStringEscaped ==
    (fn \in Generators /\ out # <<>> /\ out[1][1] # "raise") =>
        C21_ReadsBack(fn, arg, out[1])
\* where the text is built with format_lisp_string the input is read back
C21_EscapedWhereFormatted ==
    (fn \in {"create_layer", "add_text_note"} /\ out # <<>>) =>
        C21_ReadsBack(fn, arg, out[1])

\* ---------------------------------------------------------------- C22
\* the step of connect that reads and writes the support path was taken by t
\* and did not fault
C22_SupportStep(t) == pc[t] = "c_support" /\ pc'[t] = "c_doc"
\* C22: every connect that gets past attach/launch appends the lisp folder to
\* the support path: after the step the path is the path before it followed
\* by one more copy of the folder, on the first connect and on every later
\* one.
C22_EveryConnectAppends ==
    [][\A t \in Threads :
          C22_SupportStep(t) => supportLisp' = supportLisp + 1]_vars
\* C22, amended: the folder is appended exactly when the path does not hold
\* it yet; after the step the path holds it, and a path that held it already
\* is left as it was.
C22_AppendsOnlyWhenMissing ==
    [][\A t \in Threads :
          C22_SupportStep(t) =>
              /\ supportLisp' >= 1
              /\ supportLisp = 0 => supportLisp' = 1
              /\ supportLisp >= 1 => supportLisp' = supportLisp]_vars
\* a connect got past the support path step and the path holds the folder once
C22_Witness ==
    \E t \in Threads :
        /\ op[t] = "connect"
        /\ Did(t, "support")
        /\ supportLisp = 1

C25_GetNeverRaises ==
    \A t \in Threads : Done(t, "get") => ret[t].kind \in {"session", "absent"}

\* C26: two disconnect(k) calls that both began while k was registered: one
\* returns true, the other false, neither raises, and k is not registered
\* once both have finished.
C26_OneDisconnectWins ==
    \A t, u \in Threads :
        (/\ t # u
         /\ Done(t, "disconnect") /\ Done(u, "disconnect")
         /\ key[t] = key[u]
         /\ key[t] \in DOMAIN pre[t] \cap DOMAIN pre[u]) =>
            /\ ret[t].kind = "bool" /\ ret[u].kind = "bool"
            /\ ret[t].ok # ret[u].ok
            /\ ~Registered(key[t])
\* both calls saw the key registered; the one that lost found it gone at the
\* del statement
C26_Witness ==
    \E t, u \in Threads :
        /\ t # u
        /\ Done(t, "disconnect") /\ Done(u, "disconnect")
        /\ key[t] = key[u]
        /\ key[t] \in DOMAIN pre[t] \cap DOMAIN pre[u]
        /\ Did(t, "removed") /\ ret[t].ok
        /\ Did(u, "present") /\ Did(u, "remove_fault") /\ ~ret[u].ok

C28_FailedConnectKeepsRegistry ==
    \A t \in Threads :
        (Done(t, "connect") /\ ret[t].kind = "raise") =>
            /\ ret[t].exc = "AutoCADConnectionError"
            /\ connections = pre[t]
\* the call failed at its last statement with a session registered under k
C28_Witness ==
    \E t \in Threads :
        /\ Done(t, "connect")
        /\ ret[t].kind = "raise"
        /\ Did(t, "ctor_fault")
        /\ key[t] \in DOMAIN pre[t]
        /\ connections = pre[t]

\* C29: list_connections is read-only: whatever the registry holds, sessions
\* that are not alive included, the registered keys and their sessions are
\* the same after the call as before it.
C29_ListIsReadOnly ==
    \A t \in Threads : Done(t, "list") => connections = pre[t]

\* C30: an execute call sends text to the document at most once, the text
\* sent is the source text followed by one newline, and the result has
\* success=true exactly when that send returned without fault.
C30_Sends(t) ==
    {i \in 1..Len(trace[t]) : trace[t][i].ev \in {"send", "send_fault"}}
C30_SendsOnceWithTerminator ==
    \A t \in Threads :
        op[t] = "execute" =>
            /\ Cardinality(C30_Sends(t)) <= 1
            /\ \A i \in C30_Sends(t) : trace[t][i].text = code[t] \o <<"\n">>
            /\ Done(t, "execute") =>
                  /\ ret[t].kind = "result"
                  /\ ret[t].ok <=> Did(t, "send")
\* the two-statement source was sent once, terminated, and the call succeeded
C30_Witness ==
    \E t \in Threads :
        /\ Done(t, "execute")
        /\ code[t] = <<"c1", "c2">>
        /\ C30_Sends(t) # {}
        /\ Did(t, "send")
        /\ ret[t].ok
\* the send faulted: one send, no retry, success=false
C30_WitnessFault ==
    \E t \in Threads :
        /\ Done(t, "execute")
        /\ Did(t, "send_fault")
        /\ Cardinality(C30_Sends(t)) = 1
        /\ ~ret[t].ok
====
